---- MODULE Spec2Model ----
(***************************************************************************)
(* Pricing-rule manager of the BSSTraining Shopify admin app:              *)
(*   - the price calculator (calculateNewPrice) of ProductPricingDetails,  *)
(*   - the catalog resolvers of api.graphql (utils and services variants), *)
(*   - the resolve-and-price endpoint (api.product-pricing, both variants),*)
(*   - the priced report (prepareTableData),                               *)
(*   - the rule create/update action backed by the PricingRule table.      *)
(*                                                                         *)
(* Numbers are fixed-point values: an integer counts units of 1/Scale.     *)
(* Sums and differences are exact; original*amount/100 is rounded down to  *)
(* the resolution.  Strings handed to parseFloat are sequences of          *)
(* one-character strings.                                                  *)
(***************************************************************************)
EXTENDS Integers, Sequences, FiniteSets, TLC

VARIABLES
    calc,         \* one call of calculateNewPrice: its arguments and result
    catalog,      \* the catalog service: products (with variants), collections
    rules,        \* the PricingRule table: rule id -> record
    resp,         \* the response in flight (endpoint or rule form action), if any
    component,    \* state of ProductPricingDetails: products, error, table rows
    req,          \* the request that response answers, with what went wrong
    lastOp        \* the handler that ran last

vars == <<calc, catalog, rules, resp, component, req, lastOp>>

----------------------------------------------------------------------------
(* Numbers and parseFloat                                                  *)

DigitChars == <<"0", "1", "2", "3", "4", "5", "6", "7", "8", "9">>

IsDigit(c) == \E i \in 1..10 : DigitChars[i] = c

DigitVal(c) == (CHOOSE i \in 1..10 : DigitChars[i] = c) - 1

Pow10(n) == IF n = 0 THEN 1 ELSE IF n = 1 THEN 10 ELSE IF n = 2 THEN 100
            ELSE IF n = 3 THEN 1000 ELSE 10000

\* resolution of the fixed-point representation: four decimals
Scale == Pow10(4)

RECURSIVE SkipSpaces(_)
SkipSpaces(s) == IF s # <<>> /\ Head(s) = " " THEN SkipSpaces(Tail(s)) ELSE s

RECURSIVE DigitPrefix(_)
DigitPrefix(s) == IF s # <<>> /\ IsDigit(Head(s))
                  THEN <<Head(s)>> \o DigitPrefix(Tail(s))
                  ELSE <<>>

Drop(s, n) == SubSeq(s, n + 1, Len(s))

RECURSIVE WholeVal(_)
WholeVal(ds) == IF ds = <<>> THEN 0
                ELSE WholeVal(SubSeq(ds, 1, Len(ds) - 1)) * 10 + DigitVal(ds[Len(ds)])

RECURSIVE FracVal(_, _)
FracVal(ds, pos) == IF ds = <<>> \/ pos > 4 THEN 0
                    ELSE DigitVal(Head(ds)) * (Scale \div Pow10(pos))
                         + FracVal(Tail(ds), pos + 1)

NaN == [isNaN |-> TRUE, val |-> 0]

Num(v) == [isNaN |-> FALSE, val |-> v]

\* parseFloat: skip leading blanks, read the longest prefix that is a decimal
\* literal (sign, digits, optional fraction); NaN when there is none.
parseFloat(str) ==
    LET s0    == SkipSpaces(str)
        neg   == s0 # <<>> /\ Head(s0) = "-"
        s1    == IF s0 # <<>> /\ Head(s0) \in {"-", "+"} THEN Tail(s0) ELSE s0
        whole == DigitPrefix(s1)
        s2    == Drop(s1, Len(whole))
        frac  == IF s2 # <<>> /\ Head(s2) = "." THEN DigitPrefix(Tail(s2)) ELSE <<>>
        mag   == WholeVal(whole) * Scale + FracVal(frac, 1)
    IN  IF whole = <<>> /\ frac = <<>> THEN NaN
        ELSE Num(IF neg THEN 0 - mag ELSE mag)

\* JavaScript `x || 0` on a number: NaN and 0 are falsy.
OrZero(x) == IF x.isNaN \/ x.val = 0 THEN 0 ELSE x.val

Max(a, b) == IF a >= b THEN a ELSE b

\* a * b / 100 on fixed-point values, rounded down to the resolution; the
\* product is taken by parts so that no intermediate exceeds 32 bits.
MulDiv100(a, b) ==
    LET ah == a \div Scale
        al == a % Scale
        bh == b \div Scale
        bl == b % Scale
        X  == ah * b + al * bh
        Y  == al * bl
    IN  (X \div 100) + (((X % 100) * Scale + Y) \div (Scale * 100))

----------------------------------------------------------------------------
(* Price calculator                                                        *)

PriceTypes == {"apply-price", "decrease-fixed", "decrease-percentage"}

\* mutant: the apply-price case is missing and falls to the default
calculateNewPrice_NoApplyCase(originalPrice, type, value) ==
    LET original    == OrZero(parseFloat(originalPrice))
        amountValue == OrZero(parseFloat(value))
    IN  CASE type = "decrease-fixed"      -> Max(0, original - amountValue)
          [] type = "decrease-percentage" -> Max(0, original - MulDiv100(original, amountValue))
          [] OTHER                        -> original

\* mutant: decrease-fixed without the clamp at 0
calculateNewPrice_NoClamp(originalPrice, type, value) ==
    LET original    == OrZero(parseFloat(originalPrice))
        amountValue == OrZero(parseFloat(value))
    IN  CASE type = "apply-price"         -> amountValue
          [] type = "decrease-fixed"      -> original - amountValue
          [] type = "decrease-percentage" -> Max(0, original - MulDiv100(original, amountValue))
          [] OTHER                        -> original

\* mutant: decrease-percentage subtracts the amount itself, not the percentage
calculateNewPrice_PercentAsFixed(originalPrice, type, value) ==
    LET original    == OrZero(parseFloat(originalPrice))
        amountValue == OrZero(parseFloat(value))
    IN  CASE type = "apply-price"         -> amountValue
          [] type = "decrease-fixed"      -> Max(0, original - amountValue)
          [] type = "decrease-percentage" -> Max(0, original - amountValue)
          [] OTHER                        -> original

calculateNewPrice(originalPrice, type, value) ==
    LET original    == OrZero(parseFloat(originalPrice))
        amountValue == OrZero(parseFloat(value))
    IN  CASE type = "apply-price"         -> amountValue
          [] type = "decrease-fixed"      -> Max(0, original - amountValue)
          [] type = "decrease-percentage" -> Max(0, original - MulDiv100(original, amountValue))
          [] OTHER                        -> original

----------------------------------------------------------------------------
(* Inputs of the calculator                                                *)

MaxK == 6
PriceStep == 25

RECURSIVE ToStr(_)
ToStr(n) == IF n < 10 THEN <<DigitChars[n + 1]>>
            ELSE ToStr(n \div 10) \o <<DigitChars[(n % 10) + 1]>>

Prefixes == {<<>>, <<"-">>, <<" ">>}
Fractions == {<<>>, <<".", "5">>, <<".", "0", "1">>}
Suffixes == {<<>>, <<"x">>}

NumberStrings ==
    {p \o ToStr(PriceStep * k) \o f \o x :
        p \in Prefixes, k \in 0..MaxK, f \in Fractions, x \in Suffixes}

JunkStrings == {<<>>, <<"x">>, <<"-">>, <<".">>, <<".", "5">>}

InputStrings == NumberStrings \cup JunkStrings

CalcTypes == PriceTypes \cup {"unknown"}

CalcInit ==
    /\ calc \in [originalPrice : InputStrings, type : CalcTypes,
                  value : InputStrings, done : {FALSE}, result : {0}]
    /\ catalog = [products |-> <<>>, collections |-> {}]
    /\ rules = <<>>
    /\ resp = "none"
    /\ component = "none"
    /\ req = "none"
    /\ lastOp = "init"

Calculate ==
    /\ ~calc.done
    /\ calc' = [calc EXCEPT !.done = TRUE,
                            !.result = calculateNewPrice(calc.originalPrice, calc.type, calc.value)]
    /\ UNCHANGED <<catalog, rules, resp, component, req, lastOp>>

CalcNext == Calculate

SpecCalc == CalcInit /\ [][CalcNext]_vars

----------------------------------------------------------------------------
(* Catalog service (Shopify Admin GraphQL), as the resolvers query it      *)

MaxVariants == 2
MaxSel == 2

ProductOrder == <<"p1", "p2">>
ProductIds == {ProductOrder[i] : i \in 1..Len(ProductOrder)}
CollectionIds == {"c1", "c2"}
TagNames == {"sale", "new"}

\* an optional value: <<>> is absent (null / undefined), <<v>> is present
None == <<>>
Some(v) == <<v>>
IsSome(o) == Len(o) = 1

Range(f) == {f[i] : i \in DOMAIN f}

Min(a, b) == IF a <= b THEN a ELSE b

Take(s, n) == SubSeq(s, 1, Min(n, Len(s)))

VariantsFirst == 10
CollectionProductsFirst == 50

\* catalog data that the model keeps fixed: prices, tags, collection members
VariantPrice(p, i) ==
    ToStr(PriceStep * (i + (IF p = "p1" THEN 0 ELSE 2))) \o <<".", "0", "0">>

ProductTags(p) == IF p = "p1" THEN {"sale"} ELSE {"sale", "new"}

CollectionMembers(c) == IF c = "c1" THEN <<"p1", "p2">> ELSE <<"p2", "p1">>

Exists(p) == p \in DOMAIN catalog.products

VariantNode(p, i) == [id |-> <<p, i>>, price |-> VariantPrice(p, i)]

\* a product node with its `variants(first: 10)` connection
ProductNode(p) ==
    [id       |-> p,
     variants |-> Take([i \in 1..catalog.products[p] |-> VariantNode(p, i)], VariantsFirst)]

\* nodes(ids: $ids) ... on Product: one entry per id, null for a dangling id
NodesAsProducts(ids) ==
    [i \in 1..Len(ids) |-> IF Exists(ids[i]) THEN Some(ProductNode(ids[i])) ELSE None]

\* the products(first: 50) connection of a collection
CollectionNode(c) ==
    [id       |-> c,
     products |-> Take([i \in 1..Len(SelectSeq(CollectionMembers(c), Exists)) |->
                          ProductNode(SelectSeq(CollectionMembers(c), Exists)[i])],
                       CollectionProductsFirst)]

\* nodes(ids: $ids) ... on Collection
NodesAsCollections(ids) ==
    [i \in 1..Len(ids) |->
        IF ids[i] \in catalog.collections THEN Some(CollectionNode(ids[i])) ELSE None]

AllProducts == SelectSeq(ProductOrder, Exists)

\* products(query: "tag:t1 OR tag:t2 ..."): the products that carry any of the tags
HasAnyTag(p, tags) == ProductTags(p) \cap Range(tags) # {}

ProductsByTagQuery(tags) ==
    LET RECURSIVE Pick(_)
        Pick(s) == IF s = <<>> THEN <<>>
                   ELSE (IF HasAnyTag(Head(s), tags) THEN <<Head(s)>> ELSE <<>>)
                        \o Pick(Tail(s))
    IN  Pick(AllProducts)

\* products(first: $first, after: $cursor) over a listing; the cursor is the
\* position of the last edge returned so far (0 for a null cursor)
ProductsPage(listing, first, cursor) ==
    LET stop == Min(cursor + first, Len(listing))
    IN  [edges       |-> [i \in 1..(stop - cursor) |-> ProductNode(listing[cursor + i])],
         hasNextPage |-> stop < Len(listing),
         endCursor   |-> stop]

----------------------------------------------------------------------------
(* Outcomes of a catalog request and thrown errors                         *)

\* what one GraphQL request can do: answer, answer with data.errors, fail with
\* the 410 (resource gone) condition, or fail otherwise
QueryFaults == {"ok", "errors", "gone", "network"}

\* what authenticate.admin inside a utils resolver can do: succeed, throw an
\* Error naming the 410 condition, or throw a Response (no message)
AuthFaults == {"ok", "gone", "response"}

MsgGone == "Received an error response (410 Gone) from Shopify"
MsgNetwork == "fetch failed"
MsgGraphQL == "GraphQL errors: [...]"

FaultMessage(f) ==
    CASE f = "gone"    -> Some(MsgGone)
      [] f = "network" -> Some(MsgNetwork)
      [] f = "errors"  -> Some(MsgGraphQL)
      [] OTHER         -> None

\* error.message && error.message.includes('410')
Includes410(message) == IsSome(message) /\ message[1] \in {MsgGone}

Returned(products) == [ok |-> TRUE, products |-> products, message |-> None]
Thrown(message) == [ok |-> FALSE, products |-> <<>>, message |-> message]

----------------------------------------------------------------------------
(* Catalog resolvers                                                       *)

toProduct(node) == [id |-> node.id, variants |-> node.variants]

\* a mutant: one dangling id empties the whole answer
PresentNodes_AllOrNothing(nodes) ==
    IF \E i \in 1..Len(nodes) : ~IsSome(nodes[i]) THEN <<>>
    ELSE [i \in 1..Len(nodes) |-> nodes[i][1]]

RECURSIVE PresentNodes(_)
PresentNodes(nodes) ==
    IF nodes = <<>> THEN <<>>
    ELSE (IF IsSome(Head(nodes)) THEN <<Head(nodes)[1]>> ELSE <<>>) \o PresentNodes(Tail(nodes))

MapProducts(nodes) == [i \in 1..Len(nodes) |-> toProduct(nodes[i])]

\* Map.set(product.id, product) over a list, then Array.from(map.values()):
\* a key keeps the position of its first insertion and the value of its last
RECURSIVE MapSetAll(_, _)
MapSetAll(entries, items) ==
    IF items = <<>> THEN entries
    ELSE LET x   == Head(items)
             at  == {i \in 1..Len(entries) : entries[i].id = x.id}
         IN  MapSetAll(IF at = {} THEN Append(entries, x)
                       ELSE [entries EXCEPT ![CHOOSE i \in at : TRUE] = x],
                       Tail(items))

RECURSIVE FlattenCollections(_)
FlattenCollections(collections) ==
    IF collections = <<>> THEN <<>>
    ELSE MapProducts(Head(collections).products) \o FlattenCollections(Tail(collections))

\* body of getProductsByIdsWithPricing once the response arrived
ProductsByIds(productIds) == MapProducts(PresentNodes(NodesAsProducts(productIds)))

\* a mutant: the collections' products concatenated, without the Map
ProductsByCollectionIds_NoMap(collectionIds) ==
    FlattenCollections(PresentNodes(NodesAsCollections(collectionIds)))

\* body of getProductsByCollectionIdsWithPricing once the response arrived
ProductsByCollectionIds(collectionIds) ==
    MapSetAll(<<>>, FlattenCollections(PresentNodes(NodesAsCollections(collectionIds))))


\* body of getProductsByVariantIdsWithPricing once the response arrived:
\* variants grouped by product, the first variant of a product creating its entry
VariantExists(v) == Exists(v[1]) /\ v[2] <= Min(catalog.products[v[1]], VariantsFirst)

RECURSIVE GroupVariants(_, _)
GroupVariants(entries, variantIds) ==
    IF variantIds = <<>> THEN entries
    ELSE LET v    == Head(variantIds)
             node == VariantNode(v[1], v[2])
             at   == {i \in 1..Len(entries) : entries[i].id = v[1]}
             base == IF at = {}
                     THEN Append(entries, [id |-> v[1],
                                           variants |-> ProductNode(v[1]).variants,
                                           selectedVariants |-> <<>>])
                     ELSE entries
             k    == CHOOSE i \in 1..Len(base) : base[i].id = v[1]
         IN  IF ~VariantExists(v) THEN GroupVariants(entries, Tail(variantIds))
             ELSE GroupVariants(
                    [base EXCEPT ![k].selectedVariants = Append(@, node)],
                    Tail(variantIds))

ProductsByVariantIds(variantIds) == GroupVariants(<<>>, variantIds)

\* a paginated lookup: while (hasNextPage && pagesProcessed < maxPages), each
\* request made with the previous page's endCursor
RECURSIVE PageLoop(_, _, _, _, _, _, _)
PageLoop(listing, first, maxPages, cursor, hasNextPage, pagesProcessed, allProducts) ==
    IF ~(hasNextPage /\ pagesProcessed < maxPages) THEN allProducts
    ELSE LET page == ProductsPage(listing, first, cursor)
         IN  PageLoop(listing, first, maxPages, page.endCursor, page.hasNextPage,
                      pagesProcessed + 1, allProducts \o MapProducts(page.edges))

AllProductsMaxPages == 10
TagsMaxPages == 5
TagsFirst == 50
RouteLimit == 100

\* ---- app/utils/api.graphql.ts: authenticate.admin(request), then the query
\* inside try { ... } catch { throw new Error("Failed to ...") }

AuthThrown(auth) == Thrown(IF auth = "gone" THEN Some(MsgGone) ELSE None)

utils_getAllProductsWithPricing(limit, auth, query) ==
    IF auth # "ok" THEN AuthThrown(auth)
    ELSE IF query # "ok" THEN Thrown(Some("Failed to fetch products with pricing"))
    ELSE Returned(MapProducts(ProductsPage(AllProducts, limit, 0).edges))

utils_getProductsByIdsWithPricing(productIds, auth, query) ==
    IF auth # "ok" THEN AuthThrown(auth)
    ELSE IF query # "ok" THEN Thrown(Some("Failed to fetch products by IDs with pricing"))
    ELSE Returned(ProductsByIds(productIds))

utils_getProductsByCollectionIdsWithPricing(collectionIds, auth, query) ==
    IF auth # "ok" THEN AuthThrown(auth)
    ELSE IF query # "ok"
         THEN Thrown(Some("Failed to fetch products by collection IDs with pricing"))
    ELSE Returned(ProductsByCollectionIds(collectionIds))

utils_getProductsByTagsWithPricing(tags, auth, query) ==
    IF auth # "ok" THEN AuthThrown(auth)
    ELSE IF query # "ok" THEN Thrown(Some("Failed to fetch products by tags with pricing"))
    ELSE Returned(PageLoop(ProductsByTagQuery(tags), TagsFirst, TagsMaxPages, 0, TRUE, 0, <<>>))

utils_getProductsByVariantIdsWithPricing(variantIds, auth, query) ==
    IF auth # "ok" THEN AuthThrown(auth)
    ELSE IF query # "ok"
         THEN Thrown(Some("Failed to fetch products by variant IDs with pricing"))
    ELSE Returned(ProductsByVariantIds(variantIds))

\* ---- app/services/api.graphql.ts: fetch with the shop's access token, no
\* try/catch: a failed request or data.errors throws out of the resolver

services_getAllProductsWithPricing(limit, query) ==
    IF query # "ok" THEN Thrown(FaultMessage(query))
    ELSE Returned(PageLoop(AllProducts, limit, AllProductsMaxPages, 0, TRUE, 0, <<>>))

services_getProductsByIdsWithPricing(productIds, query) ==
    IF query # "ok" THEN Thrown(FaultMessage(query))
    ELSE Returned(ProductsByIds(productIds))

services_getProductsByCollectionIdsWithPricing(collectionIds, query) ==
    IF query # "ok" THEN Thrown(FaultMessage(query))
    ELSE Returned(ProductsByCollectionIds(collectionIds))

services_getProductsByTagsWithPricing(tags, query) ==
    IF query # "ok" THEN Thrown(FaultMessage(query))
    ELSE Returned(PageLoop(ProductsByTagQuery(tags), TagsFirst, TagsMaxPages, 0, TRUE, 0, <<>>))

----------------------------------------------------------------------------
(* Resolve-and-price endpoint: /api/product-pricing                        *)

ApplyTos == {"all-products", "specific-products", "product-collections", "product-tags"}

\* json({...}, {status}) and an exception that leaves the handler
Json(status, success, products, error) ==
    [kind |-> "json", status |-> status, success |-> success,
     products |-> products, count |-> Len(products), error |-> error]

Propagated ==
    [kind |-> "throw", status |-> 500, success |-> FALSE,
     products |-> <<>>, count |-> 0, error |-> None]

NoResponse ==
    [kind |-> "none", status |-> 0, success |-> FALSE,
     products |-> <<>>, count |-> 0, error |-> None]

MsgFailed == "Failed to fetch products with pricing"

\* the switch's tail: success with the products, or the catch's 500
Respond(r) ==
    IF r.ok THEN Json(200, TRUE, r.products, None)
    ELSE Json(500, FALSE, <<>>, Some(MsgFailed))

\* productIds && Array.isArray(productIds) && productIds.length > 0
NonEmptyArray(o) == IsSome(o) /\ Len(o[1]) > 0

\* the inner try/catch of the utils route: a 410 in the message means no products
Catch410(r) ==
    IF r.ok THEN r
    ELSE IF Includes410(r.message) THEN Returned(<<>>)
    ELSE r

getMockProducts ==
    << [id |-> "mock1",
        variants |-> << [id |-> <<"mock1", 1>>, price |-> <<"2", "9", ".", "9", "9">>] >>],
       [id |-> "mock2",
        variants |-> << [id |-> <<"mock2", 1>>, price |-> <<"1", "9", ".", "9", "9">>],
                        [id |-> <<"mock2", 2>>, price |-> <<"2", "4", ".", "9", "9">>] >>] >>

\* ---- routes/api.product-pricing.tsx with app/utils/api.graphql.ts
\* (the request-authenticated variant)

utils_action(body, env) ==
    IF env.session # "ok" \/ ~IsSome(body) THEN Propagated
    ELSE LET b == body[1]
         IN  CASE b.applyTo = "all-products" ->
                    Respond(utils_getAllProductsWithPricing(RouteLimit, env.auth, env.query))
               [] b.applyTo = "specific-products" ->
                    Respond(IF NonEmptyArray(b.variantIds)
                            THEN Catch410(utils_getProductsByVariantIdsWithPricing(
                                            b.variantIds[1], env.auth, env.query))
                            ELSE IF NonEmptyArray(b.productIds)
                            THEN Catch410(utils_getProductsByIdsWithPricing(
                                            b.productIds[1], env.auth, env.query))
                            ELSE Returned(<<>>))
               [] b.applyTo = "product-collections" ->
                    Respond(IF NonEmptyArray(b.collectionIds)
                            THEN Catch410(utils_getProductsByCollectionIdsWithPricing(
                                            b.collectionIds[1], env.auth, env.query))
                            ELSE Returned(<<>>))
               [] b.applyTo = "product-tags" ->
                    Respond(IF NonEmptyArray(b.tags)
                            THEN utils_getProductsByTagsWithPricing(b.tags[1], env.auth, env.query)
                            ELSE Returned(<<>>))
               [] OTHER -> Json(400, FALSE, <<>>, Some("Invalid applyTo parameter"))

\* a query parameter: absent, or the string as its comma-separated segments
\* ("" is the one segment of the empty string)
Truthy(param) == IsSome(param) /\ param[1] # <<"">>

Blank(segment) == segment \in {"", " "}

\* param.split(",").filter(id => id.trim())
RECURSIVE SplitFilter(_)
SplitFilter(segments) ==
    IF segments = <<>> THEN <<>>
    ELSE (IF Blank(Head(segments)) THEN <<>> ELSE <<Head(segments)>>)
         \o SplitFilter(Tail(segments))

WithMock(r) ==
    IF r.ok /\ Len(r.products) = 0 THEN Returned(getMockProducts) ELSE r

utils_loader(q, env) ==
    IF env.session # "ok" THEN Propagated
    ELSE CASE q.applyTo = "all-products" ->
                Respond(WithMock(utils_getAllProductsWithPricing(RouteLimit, env.auth, env.query)))
           [] q.applyTo = "specific-products" ->
                Respond(IF Truthy(q.productIds) /\ Len(SplitFilter(q.productIds[1])) > 0
                        THEN utils_getProductsByIdsWithPricing(
                                SplitFilter(q.productIds[1]), env.auth, env.query)
                        ELSE Returned(<<>>))
           [] q.applyTo = "product-collections" ->
                Respond(IF Truthy(q.collectionIds) /\ Len(SplitFilter(q.collectionIds[1])) > 0
                        THEN utils_getProductsByCollectionIdsWithPricing(
                                SplitFilter(q.collectionIds[1]), env.auth, env.query)
                        ELSE Returned(<<>>))
           [] q.applyTo = "product-tags" ->
                Respond(IF Truthy(q.tags) /\ Len(SplitFilter(q.tags[1])) > 0
                        THEN utils_getProductsByTagsWithPricing(
                                SplitFilter(q.tags[1]), env.auth, env.query)
                        ELSE Returned(<<>>))
           [] OTHER -> Json(400, FALSE, <<>>, Some("Invalid applyTo parameter"))

\* ---- routes/api.product-pricing.tsx with app/services/api.graphql.ts
\* (the shop/accessToken variant): the session and the Shop row are read
\* before the try block

ShopNotFound == Json(401, FALSE, <<>>, Some("Shop not found in DB"))

services_action(body, env) ==
    IF env.session # "ok" \/ env.shop = "throw" THEN Propagated
    ELSE IF env.shop = "missing" THEN ShopNotFound
    ELSE IF ~IsSome(body) THEN Propagated
    ELSE LET b == body[1]
         IN  CASE b.applyTo = "all-products" ->
                    Respond(services_getAllProductsWithPricing(RouteLimit, env.query))
               [] b.applyTo = "specific-products" ->
                    Respond(IF NonEmptyArray(b.productIds)
                            THEN services_getProductsByIdsWithPricing(b.productIds[1], env.query)
                            ELSE Returned(<<>>))
               [] b.applyTo = "product-collections" ->
                    Respond(IF NonEmptyArray(b.collectionIds)
                            THEN services_getProductsByCollectionIdsWithPricing(
                                    b.collectionIds[1], env.query)
                            ELSE Returned(<<>>))
               [] b.applyTo = "product-tags" ->
                    Respond(IF NonEmptyArray(b.tags)
                            THEN services_getProductsByTagsWithPricing(b.tags[1], env.query)
                            ELSE Returned(<<>>))
               [] OTHER -> Json(400, FALSE, <<>>, Some("Invalid applyTo parameter"))

services_loader(q, env) ==
    IF env.session # "ok" \/ env.shop = "throw" THEN Propagated
    ELSE IF env.shop = "missing" THEN ShopNotFound
    ELSE CASE q.applyTo = "all-products" ->
                Respond(WithMock(services_getAllProductsWithPricing(RouteLimit, env.query)))
           [] q.applyTo = "specific-products" ->
                Respond(IF Truthy(q.productIds) /\ Len(SplitFilter(q.productIds[1])) > 0
                        THEN services_getProductsByIdsWithPricing(
                                SplitFilter(q.productIds[1]), env.query)
                        ELSE Returned(<<>>))
           [] q.applyTo = "product-collections" ->
                Respond(IF Truthy(q.collectionIds) /\ Len(SplitFilter(q.collectionIds[1])) > 0
                        THEN services_getProductsByCollectionIdsWithPricing(
                                SplitFilter(q.collectionIds[1]), env.query)
                        ELSE Returned(<<>>))
           [] q.applyTo = "product-tags" ->
                Respond(IF Truthy(q.tags) /\ Len(SplitFilter(q.tags[1])) > 0
                        THEN services_getProductsByTagsWithPricing(
                                SplitFilter(q.tags[1]), env.query)
                        ELSE Returned(<<>>))
           [] OTHER -> Json(400, FALSE, <<>>, Some("Invalid applyTo parameter"))

----------------------------------------------------------------------------
(* ProductPricingDetails: fetchProductsWithPricing and prepareTableData    *)

\* n / d rounded to the nearest integer, halves away from zero (d > 0)
RoundDiv(n, d) ==
    IF n >= 0 THEN (n + d \div 2) \div d ELSE 0 - ((0 - n + d \div 2) \div d)

\* Intl.NumberFormat currency: the amount in cents
formatCurrency(amount) == RoundDiv(amount, Scale \div 100)

Abs(x) == IF x < 0 THEN 0 - x ELSE x

MockPrice == 100

\* one table row from an original price string (lines 151-169 and 173-191)
TableRow(productId, variantTitle, priceString, priceType, amount) ==
    LET originalPrice == OrZero(parseFloat(priceString))
        newPrice      == calculateNewPrice(priceString, priceType, amount)
        difference    == newPrice - originalPrice
        \* ((difference / originalPrice) * 100).toFixed(1), in tenths of a percent
        differencePercentage ==
            IF originalPrice > 0 THEN RoundDiv(difference * 1000, originalPrice) ELSE 0
    IN  [product    |-> productId,
         variant    |-> variantTitle,
         original   |-> formatCurrency(originalPrice),
         new        |-> formatCurrency(newPrice),
         difference |-> IF Abs(difference) * 100 > Scale
                        THEN [shown |-> TRUE, plus |-> difference > 0,
                              amount |-> formatCurrency(difference),
                              percent |-> differencePercentage]
                        ELSE [shown |-> FALSE, plus |-> FALSE, amount |-> 0, percent |-> 0]]

\* product.variants && product.variants.length > 0
HasVariants(product) == "variants" \in DOMAIN product /\ Len(product.variants) > 0

\* a mutant: a product without variants is skipped
ProductRows_SkipsEmpty(product, priceType, amount) ==
    IF HasVariants(product)
    THEN [j \in 1..Len(product.variants) |->
            TableRow(product.id, product.variants[j].id, product.variants[j].price,
                     priceType, amount)]
    ELSE <<>>

ProductRows(product, priceType, amount) ==
    IF HasVariants(product)
    THEN [j \in 1..Len(product.variants) |->
            TableRow(product.id, product.variants[j].id, product.variants[j].price,
                     priceType, amount)]
    ELSE << TableRow(product.id, <<"Default Title">>, ToStr(MockPrice), priceType, amount) >>

\* allTableRows of prepareTableData
RECURSIVE prepareTableData(_, _, _)
prepareTableData(products, priceType, amount) ==
    IF products = <<>> THEN <<>>
    ELSE ProductRows(Head(products), priceType, amount)
         \o prepareTableData(Tail(products), priceType, amount)

\* the URLSearchParams the component sends: only the selector of its applyTo,
\* and only when it is not empty (ids joined with ",")
FetchParams(props) ==
    [applyTo       |-> props.applyTo,
     productIds    |-> IF props.applyTo = "specific-products" /\ Len(props.selected) > 0
                       THEN Some(props.selected) ELSE None,
     collectionIds |-> IF props.applyTo = "product-collections" /\ Len(props.selected) > 0
                       THEN Some(props.selected) ELSE None,
     tags          |-> IF props.applyTo = "product-tags" /\ Len(props.selected) > 0
                       THEN Some(props.selected) ELSE None]

\* what the component keeps of the loader's answer (lines 81-94)
AfterFetch(old, response) ==
    IF response.kind # "json"
    THEN [old EXCEPT !.error = Some("Failed to fetch products with pricing")]
    ELSE IF response.success
    THEN [old EXCEPT !.products = response.products, !.error = None]
    ELSE [old EXCEPT !.error = IF IsSome(response.error) THEN response.error
                                ELSE Some("Failed to fetch products")]

----------------------------------------------------------------------------
(* The PricingRule table                                                   *)

MaxRules == 2

\* rule ids, numbered in the order the table hands them out
RuleIds == 1..MaxRules

SeedRule ==
    [name |-> <<"S", "a", "l", "e">>, priority |-> 1, status |-> "active",
     applyTo |-> "product-collections",
     productIds |-> None, variantIds |-> None,
     collectionIds |-> Some(<<"c1">>), tagIds |-> None,
     priceType |-> "decrease-fixed", amount |-> 5 * Scale,
     id |-> 1, createdAt |-> 1]

\* the table as the preview finds it: one rule saved earlier
SeedStore == [id \in {1} |-> SeedRule]

----------------------------------------------------------------------------
(* Requests of the resolve-and-price endpoint                              *)

RECURSIVE SeqsUpTo(_, _)
SeqsUpTo(S, n) ==
    IF n = 0 THEN {<<>>}
    ELSE SeqsUpTo(S, n - 1) \cup
         {Append(q, x) : q \in {r \in SeqsUpTo(S, n - 1) : Len(r) = n - 1}, x \in S}

NonEmptySeqs(S, n) == SeqsUpTo(S, n) \ {<<>>}

OptSeqs(S, n) == {None} \cup {Some(q) : q \in SeqsUpTo(S, n)}

VariantIds == {<<"p1", i>> : i \in 1..MaxVariants}

Body(applyTo, productIds, variantIds, collectionIds, tags) ==
    [applyTo |-> applyTo, productIds |-> productIds, variantIds |-> variantIds,
     collectionIds |-> collectionIds, tags |-> tags]

\* POST bodies: the fields the handler does not read for the applyTo are absent
Bodies ==
    {Body("all-products", None, None, None, None), Body("bogus", None, None, None, None)}
    \cup {Body("specific-products", p, v, None, None) :
            p \in OptSeqs(ProductIds, MaxSel), v \in {None, Some(<<>>)}}
    \cup {Body("specific-products", None, Some(v), None, None) :
            v \in NonEmptySeqs(VariantIds, MaxSel)}
    \cup {Body("product-collections", None, None, c, None) : c \in OptSeqs(CollectionIds, MaxSel)}
    \cup {Body("product-tags", None, None, None, t) : t \in OptSeqs(TagNames, MaxSel)}

PostBodies == {None} \cup {Some(b) : b \in Bodies}

Query(applyTo, productIds, collectionIds, tags) ==
    [applyTo |-> applyTo, productIds |-> productIds,
     collectionIds |-> collectionIds, tags |-> tags]

\* segments are ids, or blank; <<"">> is the empty string
Params(S) == {None, Some(<<"">>)} \cup {Some(q) : q \in NonEmptySeqs(S \cup {" "}, MaxSel)}

Queries ==
    {Query("all-products", None, None, None), Query("bogus", None, None, None)}
    \cup {Query("specific-products", p, None, None) : p \in Params(ProductIds)}
    \cup {Query("product-collections", None, c, None) : c \in Params(CollectionIds)}
    \cup {Query("product-tags", None, None, t) : t \in Params(TagNames)}

Env(session, shop, auth, query) ==
    [session |-> session, shop |-> shop, auth |-> auth, query |-> query]

\* at most one thing goes wrong in a request
UtilsEnvs ==
    {Env("ok", "found", "ok", q) : q \in QueryFaults}
    \cup {Env("ok", "found", a, "ok") : a \in AuthFaults}
    \cup {Env("throw", "found", "ok", "ok")}

ServicesEnvs ==
    {Env("ok", "found", "ok", q) : q \in QueryFaults}
    \cup {Env("ok", s, "ok", "ok") : s \in {"missing", "throw"}}
    \cup {Env("throw", "found", "ok", "ok")}

\* what the component can meet: an answer, a failure answer, no JSON at all
FetchEnvs ==
    {Env("ok", "found", "ok", "ok"), Env("ok", "found", "ok", "gone"),
     Env("throw", "found", "ok", "ok")}

PropAmounts == {ToStr(PriceStep), <<>>}

\* what a picker hands over: each chosen item once
Picked(S, n) == {q \in SeqsUpTo(S, n) : \A i, j \in 1..Len(q) : q[i] = q[j] => i = j}

\* the selector props of the modal
Selections ==
    {[applyTo |-> "all-products", selected |-> <<>>]}
    \cup {[applyTo |-> "specific-products", selected |-> q] : q \in Picked(ProductIds, MaxSel)}
    \cup {[applyTo |-> "product-collections", selected |-> q] : q \in Picked(CollectionIds, MaxSel)}
    \cup {[applyTo |-> "product-tags", selected |-> q] : q \in Picked(TagNames, MaxSel)}

Catalogs ==
    {[products |-> f, collections |-> C] :
        f \in UNION {[S -> 0..MaxVariants] : S \in SUBSET ProductIds},
        C \in SUBSET CollectionIds}

\* a catalog with a product that has variants and one that has none
PreviewCatalog ==
    [products    |-> [p \in ProductIds |-> IF p = "p1" THEN MaxVariants ELSE 0],
     collections |-> CollectionIds]

----------------------------------------------------------------------------
(* Specifications of the resolve-and-price endpoint and the priced report  *)

CalcIdle ==
    [originalPrice |-> <<>>, type |-> "unknown", value |-> <<>>, done |-> TRUE, result |-> 0]

\* the request a handler received: its body or query, and the faults it met
Request(handler, input, env) == [handler |-> handler, input |-> input, env |-> env]

NoRequest == Request("none", None, Env("ok", "found", "ok", "ok"))

ComponentInit ==
    [products |-> <<>>, error |-> None, rows |-> <<>>,
     priceType |-> "decrease-fixed", amount |-> ToStr(PriceStep)]

ResolveInit ==
    /\ calc = CalcIdle
    /\ catalog \in Catalogs
    /\ rules = SeedStore
    /\ resp = NoResponse
    /\ component = ComponentInit
    /\ req = NoRequest
    /\ lastOp = "init"

PreviewInit ==
    /\ calc = CalcIdle
    /\ catalog = PreviewCatalog
    /\ rules = SeedStore
    /\ resp = NoResponse
    /\ component = ComponentInit
    /\ req = NoRequest
    /\ lastOp = "init"

\* a mutant: the handler saves the previewed rule as inactive
PostUtils_WritesRules ==
    \E body \in PostBodies, env \in UtilsEnvs :
        /\ resp.kind = "none"
        /\ resp' = utils_action(body, env)
        /\ req' = Request("utils_action", body, env)
        /\ lastOp' = "utils_action"
        /\ rules' = [id \in DOMAIN rules |-> [rules[id] EXCEPT !.status = "inactive"]]
        /\ UNCHANGED <<calc, catalog, component>>

\* POST /api/product-pricing, utils variant
PostUtils ==
    \E body \in PostBodies, env \in UtilsEnvs :
        /\ resp.kind = "none"
        /\ resp' = utils_action(body, env)
        /\ req' = Request("utils_action", body, env)
        /\ lastOp' = "utils_action"
        /\ UNCHANGED <<calc, catalog, rules, component>>

\* GET /api/product-pricing, utils variant
GetUtils ==
    \E q \in Queries, env \in UtilsEnvs :
        /\ resp.kind = "none"
        /\ resp' = utils_loader(q, env)
        /\ req' = Request("utils_loader", q, env)
        /\ lastOp' = "utils_loader"
        /\ UNCHANGED <<calc, catalog, rules, component>>

\* POST /api/product-pricing, services variant
PostServices ==
    \E body \in PostBodies, env \in ServicesEnvs :
        /\ resp.kind = "none"
        /\ resp' = services_action(body, env)
        /\ req' = Request("services_action", body, env)
        /\ lastOp' = "services_action"
        /\ UNCHANGED <<calc, catalog, rules, component>>

\* GET /api/product-pricing, services variant
GetServices ==
    \E q \in Queries, env \in ServicesEnvs :
        /\ resp.kind = "none"
        /\ resp' = services_loader(q, env)
        /\ req' = Request("services_loader", q, env)
        /\ lastOp' = "services_loader"
        /\ UNCHANGED <<calc, catalog, rules, component>>

\* the caller has read the response; the endpoint takes the next request
Deliver ==
    /\ resp.kind # "none"
    /\ resp' = NoResponse
    /\ req' = NoRequest
    /\ lastOp' = "deliver"
    /\ UNCHANGED <<calc, catalog, rules, component>>

Render(c) == [c EXCEPT !.rows = prepareTableData(c.products, c.priceType, c.amount)]

\* the modal opens: fetchProductsWithPricing against the deployed loader, then
\* the render that follows the state update runs prepareTableData
FetchProducts ==
    \E sel \in Selections, env \in FetchEnvs, variant \in {"utils", "services"} :
        LET response == IF variant = "utils" THEN utils_loader(FetchParams(sel), env)
                        ELSE services_loader(FetchParams(sel), env)
        IN  /\ resp.kind = "none"
            /\ component' = Render(AfterFetch(component, response))
            /\ lastOp' = "fetchProductsWithPricing"
            /\ UNCHANGED <<calc, catalog, rules, resp, req>>

\* the form's priceType or amount changes while the modal shows: it renders again
EditForm ==
    \E t \in PriceTypes, a \in PropAmounts :
        /\ resp.kind = "none"
        /\ <<t, a>> # <<component.priceType, component.amount>>
        /\ component' = Render([component EXCEPT !.priceType = t, !.amount = a])
        /\ lastOp' = "prepareTableData"
        /\ UNCHANGED <<calc, catalog, rules, resp, req>>

ResolveNext == PostUtils \/ GetUtils \/ PostServices \/ GetServices \/ Deliver

SpecResolve == ResolveInit /\ [][ResolveNext]_vars

PreviewNext ==
    \/ PostUtils \/ GetUtils \/ PostServices \/ GetServices \/ Deliver
    \/ FetchProducts \/ EditForm

SpecPreview == PreviewInit /\ [][PreviewNext]_vars

----------------------------------------------------------------------------
(* Rule form action: routes/app.pricing_rule.$id.tsx                       *)

\* name.trim()
RECURSIVE TrimEnd(_)
TrimEnd(s) == IF s # <<>> /\ s[Len(s)] = " " THEN TrimEnd(SubSeq(s, 1, Len(s) - 1)) ELSE s

Trim(s) == TrimEnd(SkipSpaces(s))

\* parseInt: skip leading blanks, read sign and digits; NaN when there are none
parseInt(str) ==
    LET s0    == SkipSpaces(str)
        neg   == s0 # <<>> /\ Head(s0) = "-"
        s1    == IF s0 # <<>> /\ Head(s0) \in {"-", "+"} THEN Tail(s0) ELSE s0
        whole == DigitPrefix(s1)
    IN  IF whole = <<>> THEN NaN
        ELSE Num(IF neg THEN 0 - WholeVal(whole) ELSE WholeVal(whole))

\* JSON.parse on the selector texts the form can carry: an array of ids, the
\* literal null, or text that is not JSON (throws)
JsonArrays ==
    [t \in {"[\"p2\"]", "[\"v1\"]", "[\"c2\"]", "[\"new\"]"} |->
        CASE t = "[\"p2\"]" -> <<"p2">>
          [] t = "[\"v1\"]" -> <<"v1">>
          [] t = "[\"c2\"]" -> <<"c2">>
          [] OTHER          -> <<"new">>]

JsonParse(text) ==
    IF text \in DOMAIN JsonArrays THEN [threw |-> FALSE, value |-> Some(JsonArrays[text])]
    ELSE IF text = "null" THEN [threw |-> FALSE, value |-> None]
    ELSE [threw |-> TRUE, value |-> None]

\* if (x && x !== "[]") { try { parsed = JSON.parse(x) } catch {} }, parsed = null before
ParseSelector(text) ==
    IF text # "" /\ text # "[]" /\ ~JsonParse(text).threw THEN JsonParse(text).value ELSE None

\* a || b on selector values: null is falsy, an array is truthy
OrElse(a, b) == IF IsSome(a) THEN a ELSE b

\* !x || x === "[]"
EmptySelector(text) == text = "" \/ text = "[]"

\* the errors object of the validation (lines 133-173), as its set of keys
ValidationErrors(form) ==
    LET priority == parseInt(form.priority)
        amount   == parseFloat(form.amount)
    IN  (IF form.name = <<>> \/ Len(Trim(form.name)) < 2 THEN {"name"} ELSE {})
        \cup (IF form.status = "" THEN {"status"} ELSE {})
        \cup (IF priority.isNaN \/ priority.val = 0 \/ priority.val < 1
              THEN {"priority"} ELSE {})
        \cup (IF form.applyTo = "" THEN {"applyTo"} ELSE {})
        \cup (IF form.priceType = "" THEN {"priceType"} ELSE {})
        \cup (IF amount.isNaN \/ amount.val < 0 THEN {"amount"} ELSE {})
        \cup (IF form.applyTo = "specific-products"
                 /\ EmptySelector(form.productIds) /\ EmptySelector(form.variantIds)
              THEN {"products"} ELSE {})
        \cup (IF form.applyTo = "product-collections" /\ EmptySelector(form.collectionIds)
              THEN {"collections"} ELSE {})
        \cup (IF form.applyTo = "product-tags" /\ EmptySelector(form.tagIds)
              THEN {"tags"} ELSE {})

\* the form's own validators (useField validates, lines 336-403): TRUE when
\* the validator returns no message
NameMax == 50
PriorityMax == 99
PercentMax == 100
AmountMin == 5

Letters ==
    {"a", "b", "c", "d", "e", "f", "g", "h", "i", "j", "k", "l", "m",
     "n", "o", "p", "q", "r", "s", "t", "u", "v", "w", "x", "y", "z",
     "A", "B", "C", "D", "E", "F", "G", "H", "I", "J", "K", "L", "M",
     "N", "O", "P", "Q", "R", "S", "T", "U", "V", "W", "X", "Y", "Z"}

\* /^[a-zA-Z0-9 ]+$/
NameChars == Letters \cup {"0", "1", "2", "3", "4", "5", "6", "7", "8", "9", " "}

validates_name(value) ==
    /\ value # <<>> /\ Len(Trim(value)) >= 2
    /\ Len(value) <= NameMax
    /\ \A i \in 1..Len(value) : value[i] \in NameChars

validates_priority(value) ==
    LET num == parseInt(value)
    IN  value # <<>> /\ ~num.isNaN /\ num.val >= 1 /\ num.val <= PriorityMax

\* the amount of the other price types is at most 10,000,000,000 as well:
\* no amount of the model comes near it
validates_amount(value, priceType) ==
    LET num == parseFloat(value)
    IN  /\ ~num.isNaN
        /\ IF priceType = "decrease-percentage"
           THEN num.val >= 0 /\ num.val <= PercentMax * Scale
           ELSE num.val >= AmountMin * Scale

RuleJson(status, success, errors) ==
    [kind |-> "json", status |-> status, success |-> success, errors |-> errors]

\* an update between its findUnique and its write
Pending == [kind |-> "pending", status |-> 0, success |-> FALSE, errors |-> {}]

NoRuleResponse == [kind |-> "none", status |-> 0, success |-> FALSE, errors |-> {}]

\* updateData of the update branch (lines 225-254)
UpdateData(form, currentRule) ==
    LET applyTo == form.applyTo
    IN  [name          |-> Trim(form.name),
         priority      |-> parseInt(form.priority).val,
         status        |-> form.status,
         applyTo       |-> applyTo,
         priceType     |-> form.priceType,
         amount        |-> parseFloat(form.amount).val,
         productIds    |-> IF applyTo = "specific-products"
                           THEN OrElse(ParseSelector(form.productIds), currentRule.productIds)
                           ELSE None,
         variantIds    |-> IF applyTo = "specific-products"
                           THEN OrElse(ParseSelector(form.variantIds), currentRule.variantIds)
                           ELSE None,
         collectionIds |-> IF applyTo = "product-collections"
                           THEN OrElse(ParseSelector(form.collectionIds),
                                       currentRule.collectionIds)
                           ELSE None,
         tagIds        |-> IF applyTo = "product-tags"
                           THEN OrElse(ParseSelector(form.tagIds), currentRule.tagIds)
                           ELSE None]

\* data of prisma.pricingRule.create (lines 265-278)
CreateData(form, ruleId) ==
    [id            |-> ruleId,
     name          |-> Trim(form.name),
     priority      |-> parseInt(form.priority).val,
     status        |-> form.status,
     applyTo       |-> form.applyTo,
     priceType     |-> form.priceType,
     amount        |-> parseFloat(form.amount).val,
     productIds    |-> ParseSelector(form.productIds),
     variantIds    |-> ParseSelector(form.variantIds),
     collectionIds |-> ParseSelector(form.collectionIds),
     tagIds        |-> ParseSelector(form.tagIds)]

\* Date.now() inside a generated id `pr_${Date.now()}_...`: ids are numbered
\* by the instant they were generated at
Timestamp(ruleId) == ruleId

\* the row an insert leaves: the data, the columns it does not name at their
\* defaults (variantIds NULL, createdAt CURRENT_TIMESTAMP)
Inserted(data) ==
    [f \in DOMAIN data \cup {"variantIds", "createdAt"} |->
        IF f \in DOMAIN data THEN data[f]
        ELSE IF f = "createdAt" THEN Timestamp(data.id) ELSE None]

\* an update that stamps the row with the time of the write
Updated_StampsRow(row, data) ==
    [f \in DOMAIN row |->
        IF f \in DOMAIN data THEN data[f]
        ELSE IF f = "createdAt" THEN row[f] + 1 ELSE row[f]]

\* the row prisma.pricingRule.update leaves: the columns of data replaced
Updated(row, data) ==
    [f \in DOMAIN row |-> IF f \in DOMAIN data THEN data[f] ELSE row[f]]

\* the table after prisma.pricingRule.create
\* the insert moved ahead of the validation
action_create_BeforeValidation(form, env, ruleId) ==
    IF env.session # "ok" \/ env.form # "ok" \/ env.db # "ok"
    THEN rules
    ELSE [r \in DOMAIN rules \cup {ruleId} |->
            IF r = ruleId THEN Inserted(CreateData(form, ruleId)) ELSE rules[r]]

action_create(form, env, ruleId) ==
    IF env.session # "ok" \/ env.form # "ok" \/ ValidationErrors(form) # {} \/ env.db # "ok"
    THEN rules
    ELSE [r \in DOMAIN rules \cup {ruleId} |->
            IF r = ruleId THEN Inserted(CreateData(form, ruleId)) ELSE rules[r]]

\* an update with a version check: it leaves the row alone when the row is no
\* longer the one that was read
action_update_ChecksVersion(id, form, currentRule) ==
    IF rules[id] = currentRule
    THEN [rules EXCEPT ![id] = Updated(@, UpdateData(form, currentRule))]
    ELSE rules

\* the table after prisma.pricingRule.update({ where: { id }, data: updateData }),
\* currentRule being the row findUnique returned; the row must still be there
action_update(id, form, currentRule) ==
    [rules EXCEPT ![id] = Updated(@, UpdateData(form, currentRule))]

\* the response up to findUnique; id is None for /new; success means that the
\* handler goes on to its write
action_response(id, form, env) ==
    IF env.session # "ok" THEN RuleJson(401, FALSE, {"general"})
    ELSE IF env.form # "ok" THEN RuleJson(400, FALSE, {"general"})
    ELSE IF ValidationErrors(form) # {} THEN RuleJson(400, FALSE, ValidationErrors(form))
    ELSE IF env.db # "ok" THEN RuleJson(400, FALSE, {"general"})
    ELSE IF IsSome(id) /\ id[1] \notin DOMAIN rules THEN RuleJson(404, FALSE, {"general"})
    ELSE RuleJson(200, TRUE, {})

----------------------------------------------------------------------------
(* Requests of the rule form                                               *)

\* an absent field and an empty one take the same path through the action
\* (null and "" are both falsy, parseInt and parseFloat give NaN for both)
Selectors(applyTo, productIds, variantIds, collectionIds, tagIds) ==
    [applyTo |-> applyTo, productIds |-> productIds, variantIds |-> variantIds,
     collectionIds |-> collectionIds, tagIds |-> tagIds]

\* the fields the action reads from formData (lines 122-131)
Form(name, status, priority, sel, priceType, amount) ==
    [name |-> name, status |-> status, priority |-> priority, applyTo |-> sel.applyTo,
     productIds |-> sel.productIds, variantIds |-> sel.variantIds,
     collectionIds |-> sel.collectionIds, tagIds |-> sel.tagIds,
     priceType |-> priceType, amount |-> amount]

FormSelectors ==
    {Selectors("specific-products", p, v, "[]", "[]") :
        p \in {"[]", "[\"p2\"]", "oops"}, v \in {"[]", "[\"v1\"]"}}
    \cup {Selectors("product-collections", "[]", "[]", c, "[]") :
            c \in {"", "[]", "[\"c2\"]", "null", "oops"}}
    \cup {Selectors("product-tags", "[]", "[]", "[]", t) : t \in {"[]", "[\"new\"]"}}
    \cup {Selectors("all-products", p, "[]", "[]", "[]") : p \in {"[]", "[\"p2\"]"}}
    \cup {Selectors("", "[]", "[]", "[]", "[]")}

FormPrices == {<<"decrease-fixed", <<"5">>>>, <<"apply-price", <<"7", ".", "5">>>>}

GoodName == <<" ", "O", "k", " ">>

\* every selector with one price, one selector with every price
ValidForms ==
    {Form(GoodName, "active", <<"1">>, sel, "apply-price", <<"7", ".", "5">>) :
        sel \in FormSelectors}
    \cup {Form(GoodName, "active", <<"1">>, Selectors("product-tags", "[]", "[]", "[]", "[\"new\"]"),
                pr[1], pr[2]) : pr \in FormPrices}

\* one field wrong at a time
BaseForm ==
    Form(GoodName, "active", <<"2">>, Selectors("all-products", "[]", "[]", "[]", "[]"),
         "decrease-percentage", <<"1", "0">>)

BadForms ==
    {[BaseForm EXCEPT !.name = n] : n \in {<<>>, <<" ", "a", " ">>}}
    \cup {[BaseForm EXCEPT !.status = ""]}
    \cup {[BaseForm EXCEPT !.priority = x] : x \in {<<>>, <<"0">>, <<"-", "1">>, <<"x">>}}
    \cup {[BaseForm EXCEPT !.priceType = ""]}
    \cup {[BaseForm EXCEPT !.amount = x] : x \in {<<>>, <<"-", "1">>, <<"x">>}}

LongName == [i \in 1..(NameMax + 1) |-> "a"]

\* one field of the base form outside what the form's validators allow and
\* inside what the action checks
LooseForms ==
    {[BaseForm EXCEPT !.name = n] : n \in {LongName, <<"O", "k", "!">>}}
    \cup {[BaseForm EXCEPT !.priority = <<"1", "0", "0">>]}
    \cup {[BaseForm EXCEPT !.amount = <<"1", "5", "0">>]}

Forms == ValidForms \cup BadForms \cup LooseForms \cup {BaseForm}

RuleEnv(session, form, db) == [session |-> session, form |-> form, db |-> db]

RuleEnvOk == RuleEnv("ok", "ok", "ok")

\* at most one thing goes wrong in a request
RuleFaults ==
    {RuleEnv("throw", "ok", "ok"), RuleEnv("ok", "throw", "ok"), RuleEnv("ok", "ok", "throw")}

\* a submitted form with what it meets: every form when nothing goes wrong,
\* a valid form for each fault
Submissions ==
    {<<form, RuleEnvOk>> : form \in Forms} \cup {<<BaseForm, env>> : env \in RuleFaults}

\* read is the row findUnique returned to an update, if it has got that far
RuleRequest(handler, id, form, env, read) ==
    [handler |-> handler, id |-> id, form |-> form, env |-> env, read |-> read]

NoRuleRequest == RuleRequest("none", None, BaseForm, RuleEnvOk, None)

----------------------------------------------------------------------------
(* Rule list action: routes/app.pricing_rule.tsx                           *)

\* the ids of the list specification, the longest id list of a bulk request
\* (as many ids as leave room for their copies), the depth of copies of copies
MaxListed == 4
ListIds == 1..MaxListed
MaxBulk == MaxListed \div 2
MaxCopies == 1

CopySuffix == <<" ", "(", "C", "o", "p", "y", ")">>

\* `${rule.name} (Copy)`
CopyName(name) == name \o CopySuffix

\* a copy that keeps the original's status
CopyData_KeepsStatus(rule, newRuleId) ==
    [id            |-> newRuleId,
     name          |-> CopyName(rule.name),
     priority      |-> rule.priority,
     status        |-> rule.status,
     applyTo       |-> rule.applyTo,
     productIds    |-> rule.productIds,
     collectionIds |-> rule.collectionIds,
     tagIds        |-> rule.tagIds,
     priceType     |-> rule.priceType,
     amount        |-> rule.amount]

\* the data of a duplicated rule (lines 157-168 and 204-215): variantIds is
\* not among the copied columns
CopyData(rule, newRuleId) ==
    [id            |-> newRuleId,
     name          |-> CopyName(rule.name),
     priority      |-> rule.priority,
     status        |-> "inactive",
     applyTo       |-> rule.applyTo,
     productIds    |-> rule.productIds,
     collectionIds |-> rule.collectionIds,
     tagIds        |-> rule.tagIds,
     priceType     |-> rule.priceType,
     amount        |-> rule.amount]

ListJson(status, success) == RuleJson(status, success, {})

ListEnv(session, shop, form, db) ==
    [session |-> session, shop |-> shop, form |-> form, db |-> db]

ListEnvOk == ListEnv("ok", "found", "ok", "ok")

\* at most one thing goes wrong in a request: authenticate.admin throws,
\* the session has no shop, the Shop row is missing, formData throws, the
\* table does not answer
ListFaults ==
    {ListEnv("throw", "found", "ok", "ok"), ListEnv("noshop", "found", "ok", "ok"),
     ListEnv("ok", "missing", "ok", "ok"), ListEnv("ok", "found", "throw", "ok"),
     ListEnv("ok", "found", "ok", "throw")}

ListEnvs == {ListEnvOk} \cup ListFaults

\* the answer before the switch is reached, if there is one (lines 96-119)
ListEarly(env) ==
    IF env.session = "throw" THEN Some(ListJson(500, FALSE))
    ELSE IF env.session = "noshop" THEN Some(ListJson(400, FALSE))
    ELSE IF env.shop = "missing" THEN Some(ListJson(401, FALSE))
    ELSE IF env.form = "throw" \/ env.db = "throw" THEN Some(ListJson(500, FALSE))
    ELSE None

\* the ruleIds field: absent (or empty), text that JSON.parse rejects, or the
\* JSON text of a list of ids
IdsField(given, valid, ids) == [given |-> given, valid |-> valid, ids |-> ids]

IdsAbsent == IdsField(FALSE, FALSE, <<>>)
IdsGarbled == IdsField(TRUE, FALSE, <<>>)

ListRequest(handler, ruleId, ruleIds, env) ==
    [handler |-> handler, ruleId |-> ruleId, ruleIds |-> ruleIds, env |-> env]

\* case "delete": prisma.pricingRule.delete throws when no row has the id
delete_response(ruleId, env) ==
    IF IsSome(ListEarly(env)) THEN ListEarly(env)[1]
    ELSE IF ruleId \in DOMAIN rules THEN ListJson(200, TRUE)
    ELSE ListJson(500, FALSE)

Without(ids) == [r \in DOMAIN rules \ ids |-> rules[r]]

delete_store(ruleId, env) ==
    IF IsSome(ListEarly(env)) THEN rules ELSE Without({ruleId})

\* case "bulkDelete": deleteMany({ where: { id: { in: ids } } })
bulkDelete_response(ruleIds, env) ==
    IF IsSome(ListEarly(env)) THEN ListEarly(env)[1]
    ELSE IF ~ruleIds.given THEN ListJson(400, FALSE)
    ELSE IF ~ruleIds.valid THEN ListJson(500, FALSE)
    ELSE ListJson(200, TRUE)

bulkDelete_store(ruleIds, env) ==
    IF IsSome(ListEarly(env)) \/ ~ruleIds.given \/ ~ruleIds.valid THEN rules
    ELSE Without(Range(ruleIds.ids))

\* case "duplicate": findUnique, 404 when there is no such rule, else create
duplicate_response(ruleId, env) ==
    IF IsSome(ListEarly(env)) THEN ListEarly(env)[1]
    ELSE IF ruleId \notin DOMAIN rules THEN ListJson(404, FALSE)
    ELSE ListJson(200, TRUE)

duplicate_store(ruleId, env, newRuleId) ==
    IF IsSome(ListEarly(env)) \/ ruleId \notin DOMAIN rules THEN rules
    ELSE [r \in DOMAIN rules \cup {newRuleId} |->
            IF r = newRuleId THEN Inserted(CopyData(rules[ruleId], newRuleId)) ELSE rules[r]]

\* case "bulkDuplicate": findMany({ where: { id: { in: ids } } }) gives each
\* listed rule that exists once; createMany inserts one copy of each.
\* newIds maps a found rule's id to the id generated for its copy
\* only the first listed rule is found
Found_FirstOnly(ruleIds) ==
    IF ruleIds.ids # <<>> /\ ruleIds.ids[1] \in DOMAIN rules THEN {ruleIds.ids[1]} ELSE {}

Found(ruleIds) == Range(ruleIds.ids) \cap DOMAIN rules

bulkDuplicate_response(ruleIds, env) == bulkDelete_response(ruleIds, env)

bulkDuplicate_store(ruleIds, env, newIds) ==
    IF IsSome(ListEarly(env)) \/ ~ruleIds.given \/ ~ruleIds.valid THEN rules
    ELSE [r \in DOMAIN rules \cup Range(newIds) |->
            IF r \in DOMAIN rules THEN rules[r]
            ELSE Inserted(CopyData(rules[CHOOSE o \in DOMAIN newIds : newIds[o] = r], r))]

\* default: "Invalid action type"
invalid_response(env) ==
    IF IsSome(ListEarly(env)) THEN ListEarly(env)[1] ELSE ListJson(400, FALSE)

\* how many times a name was suffixed by a duplication
RECURSIVE CopyDepth(_)
CopyDepth(name) ==
    IF Len(name) >= Len(CopySuffix)
       /\ SubSeq(name, Len(name) - Len(CopySuffix) + 1, Len(name)) = CopySuffix
    THEN 1 + CopyDepth(SubSeq(name, 1, Len(name) - Len(CopySuffix)))
    ELSE 0

\* the id lists a bulk request carries
BulkFields ==
    {IdsAbsent, IdsGarbled}
    \cup {IdsField(TRUE, TRUE, ids) : ids \in SeqsUpTo(ListIds, MaxBulk)}

\* a bulk request: every id list where nothing else goes wrong, one id list
\* with each fault
BulkRequests ==
    {<<ruleIds, ListEnvOk>> : ruleIds \in BulkFields}
    \cup {<<IdsField(TRUE, TRUE, <<1>>), env>> : env \in ListFaults}

\* injections from a set of rule ids into the ids still free
Injections(S, T) == {f \in [S -> T] : \A a, b \in S : f[a] = f[b] => a = b}

----------------------------------------------------------------------------
(* Specification of the rule table and the rule form                       *)

Init ==
    /\ calc = CalcIdle
    /\ catalog = PreviewCatalog
    /\ rules \in {<<>>, SeedStore}
    /\ resp = NoRuleResponse
    /\ component = ComponentInit
    /\ req = NoRuleRequest
    /\ lastOp = "init"

\* POST /app/pricing_rule/new: the action with params.id = "new"
Create(submissions, ids) ==
    \E sub \in submissions, ruleId \in ids \ DOMAIN rules :
        /\ resp.kind = "none"
        /\ rules' = action_create(sub[1], sub[2], ruleId)
        /\ resp' = action_response(None, sub[1], sub[2])
        /\ req' = RuleRequest("create", None, sub[1], sub[2], None)
        /\ lastOp' = "create"
        /\ UNCHANGED <<calc, catalog, component>>

CreateRule == Create(Submissions, RuleIds)

\* POST /app/pricing_rule/$id up to findUnique: the request is answered with
\* its errors, or the row is read and the write is still to come
Update(submissions, ids) ==
    \E id \in ids, sub \in submissions :
        LET response == action_response(Some(id), sub[1], sub[2])
        IN  /\ resp.kind = "none"
            /\ resp' = IF response.success THEN Pending ELSE response
            /\ req' = RuleRequest("update", Some(id), sub[1], sub[2],
                                  IF response.success THEN Some(rules[id]) ELSE None)
            /\ lastOp' = "findUnique"
            /\ UNCHANGED <<calc, catalog, rules, component>>

UpdateRule == Update(Submissions, RuleIds)

\* the rest of that request: prisma.pricingRule.update, which throws when the
\* row is gone (the catch answers 400)
UpdateWrite ==
    /\ resp.kind = "pending"
    /\ IF req.id[1] \in DOMAIN rules
       THEN /\ rules' = action_update(req.id[1], req.form, req.read[1])
            /\ resp' = RuleJson(200, TRUE, {})
       ELSE /\ rules' = rules
            /\ resp' = RuleJson(400, FALSE, {"general"})
    /\ lastOp' = "update"
    /\ UNCHANGED <<calc, catalog, component, req>>

\* the form has read the action's answer
RuleDeliver ==
    /\ resp.kind = "json"
    /\ resp' = NoRuleResponse
    /\ req' = NoRuleRequest
    /\ lastOp' = "deliver"
    /\ UNCHANGED <<calc, catalog, rules, component>>

----------------------------------------------------------------------------
(* The rule list's requests against the same table                         *)

\* a delete or duplicate request: every id where nothing else goes wrong, one id with each
\* fault
DeleteRequests(ids) ==
    {<<ruleId, ListEnvOk>> : ruleId \in ids} \cup {<<1, env>> : env \in ListFaults}

\* actionType = "delete"
Delete(ids) ==
    \E dr \in DeleteRequests(ids) :
        /\ resp.kind = "none"
        /\ rules' = delete_store(dr[1], dr[2])
        /\ resp' = delete_response(dr[1], dr[2])
        /\ req' = ListRequest("delete", dr[1], IdsAbsent, dr[2])
        /\ lastOp' = "delete"
        /\ UNCHANGED <<calc, catalog, component>>

DeleteRule == Delete(RuleIds)

\* another client's delete of the rule under update is served between the
\* update's findUnique and its write; its answer goes to that client
DeleteDuringUpdate ==
    /\ resp.kind = "pending"
    /\ lastOp = "findUnique"
    /\ rules' = delete_store(req.id[1], ListEnvOk)
    /\ lastOp' = "delete"
    /\ UNCHANGED <<calc, catalog, component, resp, req>>

Next ==
    \/ CreateRule \/ UpdateRule \/ UpdateWrite \/ RuleDeliver
    \/ DeleteRule \/ DeleteDuringUpdate

Spec == Init /\ [][Next]_vars

\* actionType = "bulkDelete"
BulkDelete ==
    \E br \in BulkRequests : LET ruleIds == br[1] env == br[2] IN
        /\ resp.kind = "none"
        /\ rules' = bulkDelete_store(ruleIds, env)
        /\ resp' = bulkDelete_response(ruleIds, env)
        /\ req' = ListRequest("bulkDelete", 0, ruleIds, env)
        /\ lastOp' = "bulkDelete"
        /\ UNCHANGED <<calc, catalog, component>>

\* actionType = "duplicate"
DuplicateRule ==
    \E dr \in DeleteRequests(ListIds), newRuleId \in ListIds \ DOMAIN rules :
        /\ resp.kind = "none"
        /\ dr[1] \in DOMAIN rules => CopyDepth(rules[dr[1]].name) < MaxCopies
        /\ rules' = duplicate_store(dr[1], dr[2], newRuleId)
        /\ resp' = duplicate_response(dr[1], dr[2])
        /\ req' = ListRequest("duplicate", dr[1], IdsAbsent, dr[2])
        /\ lastOp' = "duplicate"
        /\ UNCHANGED <<calc, catalog, component>>

\* actionType = "bulkDuplicate"
BulkDuplicate ==
    \E br \in BulkRequests : LET ruleIds == br[1] env == br[2] IN
        \E newIds \in Injections(Found(ruleIds), ListIds \ DOMAIN rules) :
            /\ resp.kind = "none"
            /\ \A o \in Found(ruleIds) : CopyDepth(rules[o].name) < MaxCopies
            /\ rules' = bulkDuplicate_store(ruleIds, env, newIds)
            /\ resp' = bulkDuplicate_response(ruleIds, env)
            /\ req' = ListRequest("bulkDuplicate", 0, ruleIds, env)
            /\ lastOp' = "bulkDuplicate"
            /\ UNCHANGED <<calc, catalog, component>>

\* any other actionType
InvalidAction ==
    \E env \in ListEnvs :
        /\ resp.kind = "none"
        /\ resp' = invalid_response(env)
        /\ req' = ListRequest("invalid", 0, IdsAbsent, env)
        /\ lastOp' = "invalid"
        /\ UNCHANGED <<calc, catalog, rules, component>>

\* the forms of the list specification
ListForms ==
    {Form(GoodName, "active", <<"1">>, sel, "apply-price", <<"7", ".", "5">>) :
        sel \in {Selectors("product-tags", "[]", "[]", "[]", "[\"new\"]")}}

ListSubmissions == {<<form, RuleEnvOk>> : form \in ListForms \cup {[BaseForm EXCEPT !.name = <<>>]}}

CreateListed == Create(ListSubmissions, ListIds)

UpdateListed == Update(ListSubmissions, ListIds)

DeleteListed == Delete(ListIds)

ListNext ==
    \/ CreateListed \/ UpdateListed \/ UpdateWrite \/ RuleDeliver
    \/ DeleteListed \/ BulkDelete \/ DuplicateRule \/ BulkDuplicate \/ InvalidAction

SpecList == Init /\ [][ListNext]_vars

----------------------------------------------------------------------------
(* Tag suggestions: getAllProductTags and routes/api.tags.tsx              *)

TagSearchMaxPages == 3
TagAllMaxPages == 10
TagSearchEnough == 50
TagLimit == 20

LowerLetters ==
    <<"a", "b", "c", "d", "e", "f", "g", "h", "i", "j", "k", "l", "m",
      "n", "o", "p", "q", "r", "s", "t", "u", "v", "w", "x", "y", "z">>

UpperLetters ==
    <<"A", "B", "C", "D", "E", "F", "G", "H", "I", "J", "K", "L", "M",
      "N", "O", "P", "Q", "R", "S", "T", "U", "V", "W", "X", "Y", "Z">>

IsUpper(c) == \E i \in 1..26 : UpperLetters[i] = c

LowerChar(c) ==
    IF IsUpper(c) THEN LowerLetters[CHOOSE i \in 1..26 : UpperLetters[i] = c] ELSE c

toLowerCase(s) == [i \in 1..Len(s) |-> LowerChar(s[i])]

startsWith(s, t) == Len(t) <= Len(s) /\ SubSeq(s, 1, Len(t)) = t

includes(s, t) == \E i \in 0..(Len(s) - Len(t)) : SubSeq(s, i + 1, i + Len(t)) = t

\* the order of the characters in the collation a.localeCompare(b) uses:
\* blank, digits, letters
Collation == <<" ">> \o DigitChars \o LowerLetters

Weight(c) == CHOOSE i \in 1..Len(Collation) : Collation[i] = LowerChar(c)

\* the first position where two strings of one length differ, 0 if none
RECURSIVE FirstDifference(_, _, _)
FirstDifference(a, b, i) ==
    IF i > Len(a) THEN 0
    ELSE IF a[i] # b[i] THEN i
    ELSE FirstDifference(a, b, i + 1)

RECURSIVE WeightsBefore(_, _)
WeightsBefore(a, b) ==
    IF a = <<>> THEN b # <<>>
    ELSE IF b = <<>> THEN FALSE
    ELSE IF Weight(Head(a)) # Weight(Head(b)) THEN Weight(Head(a)) < Weight(Head(b))
    ELSE WeightsBefore(Tail(a), Tail(b))

\* a.localeCompare(b) < 0: by letters and digits whatever the case; strings
\* that differ in case only by the first such difference, lower case first
localeBefore(a, b) ==
    IF toLowerCase(a) # toLowerCase(b) THEN WeightsBefore(a, b)
    ELSE a # b /\ ~IsUpper(a[FirstDifference(a, b, 1)])

\* the comparator of the sort by relevance (api.graphql.ts lines 97-107)
RelevanceBefore(a, b, searchLower) ==
    LET aLower == toLowerCase(a)
        bLower == toLowerCase(b)
    IN  IF aLower = searchLower /\ bLower # searchLower THEN TRUE
        ELSE IF bLower = searchLower /\ aLower # searchLower THEN FALSE
        ELSE IF startsWith(aLower, searchLower) /\ ~startsWith(bLower, searchLower) THEN TRUE
        ELSE IF startsWith(bLower, searchLower) /\ ~startsWith(aLower, searchLower) THEN FALSE
        ELSE localeBefore(a, b)

\* Array.prototype.sort with that comparator on distinct strings: the one
\* arrangement the comparator allows, built by insertion
RECURSIVE InsertByRelevance(_, _, _)
InsertByRelevance(sorted, tag, searchLower) ==
    IF sorted = <<>> THEN <<tag>>
    ELSE IF RelevanceBefore(tag, Head(sorted), searchLower) THEN <<tag>> \o sorted
    ELSE <<Head(sorted)>> \o InsertByRelevance(Tail(sorted), tag, searchLower)

RECURSIVE SortByRelevance(_, _)
SortByRelevance(tags, searchLower) ==
    IF tags = <<>> THEN <<>>
    ELSE InsertByRelevance(SortByRelevance(Tail(tags), searchLower), Head(tags), searchLower)

RECURSIVE InsertByLocale(_, _)
InsertByLocale(sorted, tag) ==
    IF sorted = <<>> THEN <<tag>>
    ELSE IF localeBefore(tag, Head(sorted)) THEN <<tag>> \o sorted
    ELSE <<Head(sorted)>> \o InsertByLocale(Tail(sorted), tag)

RECURSIVE SortByLocale(_)
SortByLocale(tags) ==
    IF tags = <<>> THEN <<>>
    ELSE InsertByLocale(SortByLocale(Tail(tags)), Head(tags))

\* searchTerm ? : a search parameter that is given and not the empty string
TruthyTerm(searchTerm) == IsSome(searchTerm) /\ searchTerm[1] # <<>>

\* allTags.add over the tags of a page, in insertion order; keepBlank tells
\* whether a tag of blanks is added (as "") or skipped
RECURSIVE AddTags(_, _, _)
AddTags(allTags, tags, keepBlank) ==
    IF tags = <<>> THEN allTags
    ELSE LET tag == Trim(Head(tags))
         IN  AddTags(IF (tag = <<>> /\ ~keepBlank) \/ tag \in Range(allTags)
                     THEN allTags ELSE Append(allTags, tag),
                     Tail(tags), keepBlank)

\* the while loop over the pages: pages[i] is the page the i-th request is
\* answered with, hasNextPage says that there is a page after it; enough is
\* the size of allTags at which the loop is left early (0: never)
RECURSIVE TagPageLoop(_, _, _, _, _, _)
TagPageLoop(pages, i, allTags, maxPages, enough, keepBlank) ==
    IF i > Len(pages) \/ i > maxPages THEN allTags
    ELSE LET added == AddTags(allTags, pages[i], keepBlank)
         IN  IF enough > 0 /\ Len(added) >= enough THEN added
             ELSE TagPageLoop(pages, i + 1, added, maxPages, enough, keepBlank)

\* utils/api.graphql.ts
utils_getAllProductTags(pages, searchTerm) ==
    LET allTags == TagPageLoop(pages, 1, <<>>,
                               IF TruthyTerm(searchTerm) THEN TagSearchMaxPages ELSE TagAllMaxPages,
                               IF TruthyTerm(searchTerm) THEN TagSearchEnough ELSE 0, FALSE)
        searchLower == toLowerCase(Trim(searchTerm[1]))
        Matches(tag) == includes(toLowerCase(tag), searchLower)
        tagsArray ==
            IF TruthyTerm(searchTerm) /\ Trim(searchTerm[1]) # <<>>
            THEN SortByRelevance(SelectSeq(allTags, Matches), searchLower)
            ELSE SortByLocale(allTags)
    IN  Take(tagsArray, TagLimit)

\* services/api.graphql.ts, the one routes/api.tags.tsx imports
services_getAllProductTags(pages, searchTerm) ==
    Take(TagPageLoop(pages, 1, <<>>,
                     IF TruthyTerm(searchTerm) THEN TagSearchMaxPages ELSE TagAllMaxPages,
                     0, TRUE),
         TagLimit)

TagsJson(status, success, tags) ==
    [kind |-> "json", status |-> status, success |-> success, tags |-> tags]

NoTagsResponse == [kind |-> "none", status |-> 0, success |-> FALSE, tags |-> <<>>]

TagsRequest(handler, search) == [handler |-> handler, search |-> search]

----------------------------------------------------------------------------
(* Specification of the tag suggestions                                    *)

MaxPages == 4
MaxFamily == 25

\* stem00, stem01, ...
TagFamily(stem, n) ==
    [i \in 1..n |-> stem \o <<DigitChars[((i - 1) \div 10) + 1], DigitChars[((i - 1) % 10) + 1]>>]

\* pages the catalog answers with: the tags of the products of a page, one
\* after the other
ThePage == <<<<"R", "e", "d">>, <<"B", "o", "r", "e", "d">>, <<"R", "e", "d", "u", "c", "e">>, <<"B", "l", "u", "e">>>>

TagPages ==
    {ThePage,
     <<<<"r", "e", "d">>, <<" ", "R", "e", "d", " ">>, <<"R", "E", "D">>, <<" ">>,
       <<"r", "e", "d", " ", "1">>>>,
     <<<<"b">>, <<"R", "e">>, <<"r", "e", "d">>>>}

\* long pages: more matching tags than a suggestion list holds, and as many
\* tags as end a search early
LongPage == TagFamily(<<"r", "e", "d">>, MaxFamily)
LongerPage == TagFamily(<<"B", "r", "e", "d">>, MaxFamily)

TagCatalogs ==
    SeqsUpTo(TagPages, MaxPages)
    \cup {<<LongPage>>, <<LongPage, LongerPage, ThePage>>, <<ThePage, LongerPage>>}

SearchTerms ==
    {None, Some(<<>>), Some(<<" ">>), Some(<<"r", "e", "d">>), Some(<<"R", "E", "D">>),
     Some(<<" ", "r", "e", " ">>), Some(<<"b">>)}

TagsInit ==
    /\ catalog \in [tagPages : TagCatalogs]
    /\ calc = "none"
    /\ rules = <<>>
    /\ resp = NoTagsResponse
    /\ component = "none"
    /\ req = TagsRequest("none", None)
    /\ lastOp = "init"

\* the loader of routes/api.tags.tsx
SearchTags ==
    \E search \in SearchTerms :
        /\ resp.kind = "none"
        /\ resp' = TagsJson(200, TRUE, services_getAllProductTags(catalog.tagPages, search))
        /\ req' = TagsRequest("services", search)
        /\ lastOp' = "tags"
        /\ UNCHANGED <<calc, catalog, rules, component>>

\* the same request served by the function of utils/api.graphql.ts
SearchTagsUtils ==
    \E search \in SearchTerms :
        /\ resp.kind = "none"
        /\ resp' = TagsJson(200, TRUE, utils_getAllProductTags(catalog.tagPages, search))
        /\ req' = TagsRequest("utils", search)
        /\ lastOp' = "tags"
        /\ UNCHANGED <<calc, catalog, rules, component>>

TagsDeliver ==
    /\ resp.kind = "json"
    /\ resp' = NoTagsResponse
    /\ req' = TagsRequest("none", None)
    /\ lastOp' = "deliver"
    /\ UNCHANGED <<calc, catalog, rules, component>>

TagsNext == SearchTags \/ SearchTagsUtils \/ TagsDeliver

SpecTags == TagsInit /\ [][TagsNext]_vars

----------------------------------------------------------------------------
(* The paginated lookups, request by request                               *)

\* the catalog as a paginated lookup sees it: page i holds one edge, i, or
\* none when i is among the empty pages; every page but page stopAt reports
\* a further page (stopAt = 0: every page does)
Feed(stopAt, empties) == [stopAt |-> stopAt, empties |-> empties]

FeedPage(feed, i) ==
    [edges       |-> IF i \in feed.empties THEN <<>> ELSE <<i>>,
     hasNextPage |-> i # feed.stopAt,
     endCursor   |-> i]

\* the page after a cursor: products(after: $cursor); null is the start
PageAfter(feed, cursor) == FeedPage(feed, (IF IsSome(cursor) THEN cursor[1] ELSE 0) + 1)

Lookups ==
    {"services_getAllProductsWithPricing", "utils_getAllProductsWithPricing",
     "services_getProductsByTagsWithPricing", "utils_getProductsByTagsWithPricing",
     "services_getAllProductTags", "utils_getAllProductTags"}

TagListings == {"services_getAllProductTags", "utils_getAllProductTags"}

\* the local variables of a lookup: cursor, hasNextPage, pagesProcessed and
\* the collected items; requests are the cursors sent so far, served the
\* pages received, awaiting says that a request is without its response
Lookup(fn, search) ==
    [fn |-> fn, search |-> search, cursor |-> None, hasNextPage |-> TRUE,
     pagesProcessed |-> 0, items |-> <<>>, requests |-> <<>>, served |-> <<>>,
     awaiting |-> FALSE]

NoLookup == Lookup("none", FALSE)

\* the page cap of the loop
MaxPagesOf(l) ==
    IF l.fn \in TagListings THEN (IF l.search THEN TagSearchMaxPages ELSE TagAllMaxPages)
    ELSE IF l.fn \in {"services_getProductsByTagsWithPricing", "utils_getProductsByTagsWithPricing"}
    THEN TagsMaxPages
    ELSE AllProductsMaxPages

\* a loop without its page cap
Continues_NoCap(l) ==
    IF l.fn = "utils_getAllProductsWithPricing" THEN l.pagesProcessed = 0
    ELSE /\ l.hasNextPage
         /\ ~(l.fn = "utils_getAllProductTags" /\ l.search
              /\ l.pagesProcessed > 0 /\ Len(l.items) >= TagSearchEnough)

\* the loop stands before another request; utils/getAllProductsWithPricing
\* has no loop and makes its one request
Continues(l) ==
    IF l.fn = "utils_getAllProductsWithPricing" THEN l.pagesProcessed = 0
    ELSE /\ l.hasNextPage /\ l.pagesProcessed < MaxPagesOf(l)
         /\ ~(l.fn = "utils_getAllProductTags" /\ l.search
              /\ l.pagesProcessed > 0 /\ Len(l.items) >= TagSearchEnough)

\* the cursor kept after a page: pageInfo.endCursor in the product lookups;
\* in the tag listings the cursor of the last edge, which the utils copy
\* takes only when there is a further page and an edge
NextCursor(l, page) ==
    IF l.fn = "utils_getAllProductTags"
    THEN (IF page.hasNextPage /\ page.edges # <<>> THEN Some(page.edges[Len(page.edges)])
          ELSE l.cursor)
    ELSE IF l.fn = "services_getAllProductTags"
    THEN (IF page.hasNextPage THEN Some(page.edges[Len(page.edges)]) ELSE None)
    ELSE Some(page.endCursor)

\* edges.slice(-1)[0].cursor of a page without edges
CursorThrows(l, page) ==
    l.fn = "services_getAllProductTags" /\ page.hasNextPage /\ page.edges = <<>>

\* the loop body after the response
AfterPage(l, page) ==
    [l EXCEPT !.items = @ \o page.edges,
              !.hasNextPage = page.hasNextPage,
              !.cursor = NextCursor(l, page),
              !.pagesProcessed = @ + 1,
              !.served = Append(@, page),
              !.awaiting = FALSE]

LookupOutcome(kind, items) == [kind |-> kind, items |-> items]

----------------------------------------------------------------------------
(* Specification of the paginated lookups                                  *)

MaxStop == 11
MaxEmpty == 2

PagesInit ==
    /\ catalog \in {Feed(stopAt, empties) : stopAt \in 0..MaxStop, empties \in SUBSET (1..MaxEmpty)}
    /\ req \in {Lookup(fn, search) : fn \in Lookups, search \in BOOLEAN}
    /\ req.search => req.fn \in TagListings
    /\ resp = LookupOutcome("none", <<>>)
    /\ calc = "none"
    /\ rules = <<>>
    /\ component = "none"
    /\ lastOp = "init"

\* await admin.graphql(query, { variables: { cursor } }) / await fetch(...)
IssueRequest ==
    /\ resp.kind = "none" /\ ~req.awaiting
    /\ Continues(req)
    /\ req' = [req EXCEPT !.requests = Append(@, req.cursor), !.awaiting = TRUE]
    /\ lastOp' = "request"
    /\ UNCHANGED <<calc, catalog, rules, resp, component>>

\* the response arrives and the loop body runs
ReceivePage ==
    /\ resp.kind = "none" /\ req.awaiting
    /\ LET page == PageAfter(catalog, req.cursor)
       IN  IF CursorThrows(req, page)
           THEN /\ req' = [req EXCEPT !.served = Append(@, page), !.awaiting = FALSE]
                /\ resp' = LookupOutcome("throw", <<>>)
           ELSE /\ req' = AfterPage(req, page)
                /\ resp' = resp
    /\ lastOp' = "response"
    /\ UNCHANGED <<calc, catalog, rules, component>>

\* return allProducts (the tag listings go on to sort and cut the tags)
ReturnItems ==
    /\ resp.kind = "none" /\ ~req.awaiting
    /\ ~Continues(req)
    /\ resp' = LookupOutcome("returned", req.items)
    /\ lastOp' = "return"
    /\ UNCHANGED <<calc, catalog, rules, req, component>>

PagesNext == IssueRequest \/ ReceivePage \/ ReturnItems

SpecPages == PagesInit /\ [][PagesNext]_vars

\* a lookup that can take a step takes it: no operation waits on anything
\* but the catalog, and the catalog answers
SpecPagesFair == SpecPages /\ WF_vars(PagesNext)

----------------------------------------------------------------------------
(* Claims about the price calculator (under SpecCalc)                      *)

CalcOriginal == parseFloat(calc.originalPrice)
CalcAmount == parseFloat(calc.value)
NonNegative(x) == ~x.isNaN /\ x.val >= 0

\* C1: for every non-negative original and non-negative amount, apply-price
\* returns exactly the amount, whatever the original is.
C1_ApplyPriceReturnsAmount ==
    (calc.done /\ calc.type = "apply-price"
        /\ NonNegative(CalcOriginal) /\ NonNegative(CalcAmount))
    => calc.result = CalcAmount.val

C1_Witness ==
    /\ calc.done /\ calc.type = "apply-price"
    /\ NonNegative(CalcOriginal) /\ NonNegative(CalcAmount)
    /\ CalcOriginal.val = 50 * Scale + Scale \div 2
    /\ CalcAmount.val = 25 * Scale + Scale \div 100
    /\ calc.result = CalcAmount.val

\* C2: for every non-negative original and amount, decrease-fixed returns
\* max(0, original - amount), which is never negative.
C2_DecreaseFixedClamped ==
    (calc.done /\ calc.type = "decrease-fixed"
        /\ NonNegative(CalcOriginal) /\ NonNegative(CalcAmount))
    => /\ calc.result = Max(0, CalcOriginal.val - CalcAmount.val)
       /\ calc.result >= 0

C2_Witness ==
    /\ calc.done /\ calc.type = "decrease-fixed"
    /\ NonNegative(CalcOriginal) /\ NonNegative(CalcAmount)
    /\ CalcOriginal.val > 0
    /\ CalcAmount.val > CalcOriginal.val
    /\ calc.result = 0

\* C3: for every original >= 0 and amount in [0,100], decrease-percentage
\* returns max(0, original - original*amount/100), at most the original.
C3_DecreasePercentage ==
    (calc.done /\ calc.type = "decrease-percentage"
        /\ NonNegative(CalcOriginal) /\ NonNegative(CalcAmount)
        /\ CalcAmount.val <= 100 * Scale)
    => /\ calc.result = Max(0, CalcOriginal.val - MulDiv100(CalcOriginal.val, CalcAmount.val))
       /\ calc.result <= CalcOriginal.val

C3_Witness ==
    /\ calc.done /\ calc.type = "decrease-percentage"
    /\ CalcOriginal = Num(50 * Scale)
    /\ CalcAmount = Num(25 * Scale)
    /\ calc.result = 37 * Scale + Scale \div 2

\* C4: the calculator's result is never negative, for every priceType
\* (known or unknown) and every leniently parsed original and amount.
C4_ResultNeverNegative ==
    calc.done => calc.result >= 0

----------------------------------------------------------------------------
(* Claims about the resolve-and-price endpoint (under SpecResolve)         *)

PostHandlers == {"utils_action", "services_action"}
GetHandlers == {"utils_loader", "services_loader"}

Answered == req.handler \in PostHandlers \cup GetHandlers

ReqApplyTo ==
    CASE req.handler \in GetHandlers -> req.input.applyTo
      [] req.handler \in PostHandlers /\ IsSome(req.input) -> req.input[1].applyTo
      [] OTHER -> "none"

\* the ids the request names for a selector field, as the handler reads them
ReqList(field) ==
    CASE req.handler \in GetHandlers ->
            IF IsSome(req.input[field]) THEN SplitFilter(req.input[field][1]) ELSE <<>>
      [] req.handler \in PostHandlers /\ IsSome(req.input) ->
            IF NonEmptyArray(req.input[1][field]) THEN req.input[1][field][1] ELSE <<>>
      [] OTHER -> <<>>

NoFault == req.env = Env("ok", "found", "ok", "ok")

Ids(products) == [i \in 1..Len(products) |-> products[i].id]

NoDuplicates(s) == \A i, j \in 1..Len(s) : s[i] = s[j] => i = j

\* the products of the selected collections that exist
CollectionProducts(collectionIds) ==
    {p \in ProductIds : Exists(p) /\ \E i \in 1..Len(collectionIds) :
        /\ collectionIds[i] \in catalog.collections
        /\ p \in Range(CollectionMembers(collectionIds[i]))}

\* C5: resolving a product-collections selector returns a list in which no two
\* products have the same id; a product contained in two or more of the
\* selected collections appears exactly once.
C5_CollectionsDeduplicated ==
    (Answered /\ ReqApplyTo = "product-collections" /\ resp.kind = "json" /\ resp.success)
    => /\ NoDuplicates(Ids(resp.products))
       /\ NoFault => Range(Ids(resp.products)) = CollectionProducts(ReqList("collectionIds"))

C5_Witness ==
    /\ Answered /\ ReqApplyTo = "product-collections" /\ resp.kind = "json" /\ resp.success
    /\ NoFault
    /\ Range(ReqList("collectionIds")) = {"c1", "c2"}
    /\ catalog.collections = {"c1", "c2"}
    /\ Exists("p1") /\ Exists("p2")
    /\ Len(resp.products) = 2

ReqHasVariantIds ==
    req.handler = "utils_action" /\ IsSome(req.input) /\ NonEmptyArray(req.input[1].variantIds)

\* C6: resolving a specific-products selector whose id list mixes existing and
\* missing ids returns exactly the existing products, in the order requested,
\* and reports success.
C6_MissingIdsDropped ==
    (Answered /\ ReqApplyTo = "specific-products" /\ NoFault /\ ~ReqHasVariantIds)
    => /\ resp.kind = "json" /\ resp.success /\ resp.status = 200
       /\ IsSome(resp.error) = FALSE
       /\ Ids(resp.products) = SelectSeq(ReqList("productIds"), Exists)

C6_Witness ==
    /\ Answered /\ ReqApplyTo = "specific-products" /\ NoFault /\ ~ReqHasVariantIds
    /\ \E i, j \in 1..Len(ReqList("productIds")) :
          Exists(ReqList("productIds")[i]) /\ ~Exists(ReqList("productIds")[j])
    /\ Len(ReqList("productIds")) = 2
    /\ resp.success /\ Len(resp.products) = 1

\* the catalog service signalled the 410 condition to this request
SignalledGone ==
    /\ Answered
    /\ req.env.session = "ok" /\ req.env.shop = "found"
    /\ ReqApplyTo \in ApplyTos
    /\ \/ req.env.query = "gone"
       \/ req.handler \in {"utils_action", "utils_loader"} /\ req.env.auth = "gone"

\* C7: when the catalog service signals the 410 condition during a resolve
\* request, the endpoint answers with a successful response holding zero
\* products, for every applyTo and for GET and POST; never with an error.
C7_GoneMeansZeroProducts ==
    SignalledGone => (resp.kind = "json" /\ resp.success /\ Len(resp.products) = 0)

----------------------------------------------------------------------------
(* Claims about the priced report (under SpecPreview)                      *)

VariantCount(product) == IF HasVariants(product) THEN Len(product.variants) ELSE 0

RECURSIVE TotalVariants(_)
TotalVariants(products) ==
    IF products = <<>> THEN 0
    ELSE VariantCount(Head(products)) + TotalVariants(Tail(products))

RECURSIVE TotalRows(_)
TotalRows(products) ==
    IF products = <<>> THEN 0
    ELSE Max(1, VariantCount(Head(products))) + TotalRows(Tail(products))

Rendered == lastOp \in {"fetchProductsWithPricing", "prepareTableData"}

RowsOf(productId) == SelectSeq(component.rows, LAMBDA r : r.product = productId)

PreviewOps ==
    {"utils_action", "utils_loader", "services_action", "services_loader",
     "fetchProductsWithPricing", "prepareTableData"}

\* C9: computing the priced preview (any request to the resolve-and-price
\* endpoint, any fetch and render of the pricing details, in any sequence)
\* leaves the PricingRule table unchanged.
C9_PreviewLeavesRules ==
    [][lastOp' \in PreviewOps => rules' = rules]_vars

C9_Witness ==
    /\ lastOp = "utils_action"
    /\ resp.kind = "json" /\ resp.success /\ Len(resp.products) > 0
    /\ Len(component.rows) > 0
    /\ rules = SeedStore /\ DOMAIN rules # {}

----------------------------------------------------------------------------
(* Claims about the rule form action (under Spec)                          *)

\* the selector field that an applyTo designates
Designated(applyTo) ==
    CASE applyTo = "specific-products"   -> "productIds"
      [] applyTo = "product-collections" -> "collectionIds"
      [] applyTo = "product-tags"        -> "tagIds"
      [] OTHER                           -> "none"

\* an update of an existing rule that keeps its applyTo, submits an empty
\* selector for the designated field and is valid in every other field
UpdateWithEmptySelector(r, id) ==
    /\ r.handler = "update" /\ r.id = Some(id)
    /\ resp'.kind = "json"
    /\ id \in DOMAIN rules
    /\ r.env = RuleEnvOk
    /\ r.form.applyTo = rules[id].applyTo
    /\ Designated(r.form.applyTo) # "none"
    /\ EmptySelector(r.form[Designated(r.form.applyTo)])
    /\ ValidationErrors(r.form) \subseteq {"products", "collections", "tags"}

\* C10: updating a rule while submitting an empty selector ("[]" or absent)
\* for the field its applyTo designates leaves the stored productIds,
\* collectionIds and tagIds unchanged, and applies the submitted priceType
\* and amount.
C10_UpdateKeepsSelector ==
    [][\A id \in RuleIds :
          UpdateWithEmptySelector(req', id) =>
              /\ rules'[id].productIds = rules[id].productIds
              /\ rules'[id].collectionIds = rules[id].collectionIds
              /\ rules'[id].tagIds = rules[id].tagIds
              /\ rules'[id].priceType = req'.form.priceType
              /\ rules'[id].amount = parseFloat(req'.form.amount).val]_vars

----------------------------------------------------------------------------
(* Claims about the rule table (under Spec and SpecList)                   *)

\* a selector column that holds a non-empty list
Populated(rule, field) == IsSome(rule[field]) /\ rule[field][1] # <<>>

SelectorFields == {"productIds", "collectionIds", "tagIds"}

\* C11: in every reachable state of the rule table each stored rule has
\* populated exactly the selector field its applyTo designates (productIds
\* for specific-products, collectionIds for product-collections, tagIds for
\* product-tags, none for all-products) and its other selector fields are
\* null.
C11_SelectorMatchesApplyTo ==
    \A id \in DOMAIN rules :
        \A field \in SelectorFields :
            IF field = Designated(rules[id].applyTo)
            THEN Populated(rules[id], field)
            ELSE rules[id][field] = None

\* the rule form action has answered (or is between read and write of) a
\* request that met no fault
RuleFormServed ==
    /\ resp.kind # "none"
    /\ req.handler \in {"create", "update"}
    /\ req.env = RuleEnvOk

\* C12: the action of the rule form rejects, with a field-level error map,
\* every create and update request whose name is not 2-50 characters of
\* letters, digits and spaces or whose priority is not an integer in 1..99;
\* hence every stored rule has a priority in 1..99 and a name within those
\* limits.
C12_NameAndPriorityEnforced ==
    /\ RuleFormServed /\ ~validates_name(req.form.name)
           => resp.kind = "json" /\ "name" \in resp.errors
    /\ RuleFormServed /\ ~validates_priority(req.form.priority)
           => resp.kind = "json" /\ "priority" \in resp.errors
    /\ \A id \in DOMAIN rules :
           /\ rules[id].priority \in 1..PriorityMax
           /\ Len(rules[id].name) \in 2..NameMax
           /\ \A i \in 1..Len(rules[id].name) : rules[id].name[i] \in NameChars

\* C13: the action of the rule form rejects a create or update request with
\* priceType decrease-percentage whose amount lies outside [0,100]; hence no
\* stored decrease-percentage rule has an amount above 100 or below 0.
C13_PercentageWithinBounds ==
    /\ (/\ RuleFormServed
        /\ req.form.priceType = "decrease-percentage"
        /\ ~validates_amount(req.form.amount, req.form.priceType))
           => resp.kind = "json" /\ "amount" \in resp.errors
    /\ \A id \in DOMAIN rules :
           rules[id].priceType = "decrease-percentage"
               => rules[id].amount >= 0 /\ rules[id].amount <= PercentMax * Scale

\* a step of the rule form action that ends in an answer
RuleFormAnswers ==
    /\ lastOp' \in {"create", "findUnique", "update"}
    /\ resp'.kind = "json"

\* the row holds what the form submitted: the trimmed name, the numbers the
\* texts stand for, and the list of the selector that applyTo designates
\* when the form carries one
HoldsSubmitted(row, form) ==
    /\ row.name = Trim(form.name)
    /\ row.priority = parseInt(form.priority).val
    /\ row.status = form.status
    /\ row.applyTo = form.applyTo
    /\ row.priceType = form.priceType
    /\ row.amount = parseFloat(form.amount).val
    /\ \A field \in SelectorFields :
           field = Designated(form.applyTo) /\ form[field] \in DOMAIN JsonArrays
               => row[field] = Some(JsonArrays[form[field]])

\* the ids whose rows a step has added or changed
Written == {id \in DOMAIN rules' : id \notin DOMAIN rules \/ rules'[id] # rules[id]}

UpdateOfMissingAnswered ==
    /\ RuleFormAnswers
    /\ req'.handler = "update"
    /\ req'.env = RuleEnvOk
    /\ ValidationErrors(req'.form) = {}
    /\ req'.id[1] \notin DOMAIN rules

\* C15: an update for an id that is not in the rule table at the time of
\* the write is answered with a not-found error (404) and leaves the table
\* unchanged, also when the rule was deleted by another request between the
\* update's read and its write.
C15_UpdateOfMissingIsNotFound ==
    [][UpdateOfMissingAnswered => resp'.status = 404 /\ rules' = rules]_vars

\* a step of the rule list action for the given actionType, under no fault
ListStep(handler) ==
    /\ lastOp' = handler
    /\ req'.handler = handler
    /\ req'.env = ListEnvOk

\* C16: a single delete of an id that is not in the table produces a
\* not-found outcome (404, as duplicate gives); a bulkDelete whose list
\* holds missing ids succeeds, removes exactly the listed rules that exist
\* and leaves the others unchanged; either delete leaves the table
\* unchanged when nothing it names is there.
C16_DeleteOfMissing ==
    [][/\ ListStep("delete") /\ req'.ruleId \notin DOMAIN rules
           => resp'.status = 404 /\ rules' = rules
       /\ ListStep("bulkDelete") /\ req'.ruleIds.valid
           => /\ resp'.success
              /\ DOMAIN rules' = DOMAIN rules \ Range(req'.ruleIds.ids)
              /\ \A id \in DOMAIN rules' : rules'[id] = rules[id]]_vars

\* the ids a step has added to the table
Added == DOMAIN rules' \ DOMAIN rules

\* row is a copy of original as the list's duplication makes it
IsCopyOf(row, original) ==
    /\ row.name = original.name \o <<" ", "(", "C", "o", "p", "y", ")">>
    /\ row.status = "inactive"
    /\ row.applyTo = original.applyTo
    /\ row.productIds = original.productIds
    /\ row.collectionIds = original.collectionIds
    /\ row.tagIds = original.tagIds
    /\ row.priceType = original.priceType
    /\ row.amount = original.amount

\* C17: duplicate(id) of an existing rule stores a rule with a new id that
\* differs from every existing id, the original's name followed by
\* " (Copy)", status inactive, and the original's applyTo, selector
\* fields, priceType and amount.
C17_DuplicateCopiesRule ==
    [][ListStep("duplicate") /\ req'.ruleId \in DOMAIN rules
          => /\ resp'.success
             /\ Cardinality(Added) = 1
             /\ \A id \in Added :
                    /\ rules'[id].id = id
                    /\ \A other \in DOMAIN rules : rules[other].id # id
                    /\ IsCopyOf(rules'[id], rules[req'.ruleId])]_vars

\* an active rule with a selector has just been duplicated next to another
\* rule
C17_Witness ==
    /\ lastOp = "duplicate" /\ resp.kind = "json" /\ resp.success
    /\ req.ruleId \in DOMAIN rules
    /\ rules[req.ruleId].status = "active"
    /\ Designated(rules[req.ruleId].applyTo) # "none"
    /\ Cardinality(DOMAIN rules) >= 3

\* the ids a duplication request lists
Listed(request) ==
    IF request.handler = "duplicate" THEN {request.ruleId} ELSE Range(request.ruleIds.ids)

\* a duplicate step, or a bulkDuplicate step whose ruleIds field parses
DuplicationStep ==
    \/ ListStep("duplicate")
    \/ ListStep("bulkDuplicate") /\ req'.ruleIds.valid

\* C18: duplicate and bulkDuplicate leave every rule that was in the table
\* unchanged and add exactly one new rule per listed id that exists, a copy
\* of that rule; ids of a bulk list that are not in the table are skipped
\* without error.
C18_DuplicationAddsOnePerExisting ==
    [][DuplicationStep =>
          LET existing == Listed(req') \cap DOMAIN rules
          IN  /\ \A id \in DOMAIN rules : id \in DOMAIN rules' /\ rules'[id] = rules[id]
              /\ Cardinality(Added) = Cardinality(existing)
              /\ \A o \in existing : \E a \in Added : IsCopyOf(rules'[a], rules[o])
              /\ \A a \in Added : \E o \in existing : IsCopyOf(rules'[a], rules[o])
              /\ req'.handler = "bulkDuplicate" => resp'.success]_vars

\* a bulkDuplicate of two rules has filled the table with them and their
\* copies
C18_Witness ==
    /\ lastOp = "bulkDuplicate" /\ resp.kind = "json" /\ resp.success
    /\ Cardinality(Range(req.ruleIds.ids)) = 2
    /\ Range(req.ruleIds.ids) \subseteq DOMAIN rules
    /\ Cardinality({id \in DOMAIN rules : CopyDepth(rules[id].name) = 1}) >= 2

\* C19: the id and the createdAt of a stored rule never change, whatever
\* sequence of update, duplicate and delete requests is served: a step
\* leaves both as they were in every rule it does not remove.
C19_IdAndCreatedAtFixed ==
    [][\A id \in DOMAIN rules \cap DOMAIN rules' :
          /\ rules'[id].id = rules[id].id
          /\ rules'[id].createdAt = rules[id].createdAt]_vars

\* an update has rewritten a rule of a table that holds a copy as well
C19_Witness ==
    /\ lastOp = "update" /\ resp.kind = "json" /\ resp.success
    /\ rules[req.id[1]].name # req.read[1].name
    /\ rules[req.id[1]].createdAt = req.read[1].createdAt
    /\ \E id \in DOMAIN rules : CopyDepth(rules[id].name) > 0

----------------------------------------------------------------------------
(* Claims about the tag suggestions (under SpecTags)                       *)

\* 0 for a tag that is the term, 1 for one that starts with it, 2 otherwise
\* (case ignored)
Rank(tag, term) ==
    IF toLowerCase(tag) = term THEN 0
    ELSE IF startsWith(toLowerCase(tag), term) THEN 1
    ELSE 2

\* a search with a term that is not blank has been answered
TagSearchAnswered ==
    /\ resp.kind = "json"
    /\ req.handler \in {"services", "utils"}
    /\ IsSome(req.search) /\ Trim(req.search[1]) # <<>>

\* C20: a tag-suggestion search with a non-empty term returns only tags
\* that contain the term, case ignored, ordered exact matches first, then
\* tags that start with the term, then the other tags that contain it, ties
\* in lexical order, at most 20 of them; the term "red" over Red, Bored,
\* Reduce, Blue gives Red, Reduce, Bored.
C20_TagSearchRanked ==
    TagSearchAnswered =>
        LET term == toLowerCase(Trim(req.search[1]))
            tags == resp.tags
        IN  /\ Len(tags) <= TagLimit
            /\ \A i \in 1..Len(tags) : includes(toLowerCase(tags[i]), term)
            /\ \A i, j \in 1..Len(tags) :
                   i < j => \/ Rank(tags[i], term) < Rank(tags[j], term)
                            \/ /\ Rank(tags[i], term) = Rank(tags[j], term)
                               /\ localeBefore(tags[i], tags[j])
            /\ catalog.tagPages = <<ThePage>> /\ term = <<"r", "e", "d">>
                   => tags = <<<<"R", "e", "d">>, <<"R", "e", "d", "u", "c", "e">>,
                               <<"B", "o", "r", "e", "d">>>>

----------------------------------------------------------------------------
(* Claims about the boundary of the handlers (under SpecResolve)           *)

\* C21: every public operation turns a failure of authentication, shop
\* lookup, request-body parsing, catalog access or store access into a
\* failure response: no exception leaves a handler.
C21_NoExceptionLeavesHandler == resp.kind # "throw"

----------------------------------------------------------------------------
(* Claims about the paginated lookups (under SpecPages, SpecPagesFair)     *)

\* the number of the page at which paging is to stop: the first that
\* reports no further page, or the cap
LastPage(feed, cap) == IF feed.stopAt \in 1..cap THEN feed.stopAt ELSE cap

\* the edges of pages 1..n one after the other
RECURSIVE PagesConcatenated(_, _)
PagesConcatenated(feed, n) ==
    IF n = 0 THEN <<>> ELSE PagesConcatenated(feed, n - 1) \o FeedPage(feed, n).edges

AllProductsLookups == {"services_getAllProductsWithPricing", "utils_getAllProductsWithPricing"}

\* C22: resolving all-products returns the concatenation, in order, of the
\* catalog's pages from the first on, each requested with the cursor of the
\* page before, up to and including the first page that reports no further
\* page or the 10th page, whichever comes first.
C22_AllProductsPagedToTheEnd ==
    resp.kind = "returned" /\ req.fn \in AllProductsLookups
        => /\ req.items = PagesConcatenated(catalog, LastPage(catalog, 10))
           /\ resp.items = req.items
           /\ Len(req.served) = LastPage(catalog, 10)

\* the page cap the lookups are to keep: 3 for a tag search, 10 for the
\* unfiltered tag listing and all-products, 5 for product-tags
CapOf(l) ==
    IF l.fn \in TagListings THEN (IF l.search THEN 3 ELSE 10)
    ELSE IF l.fn \in AllProductsLookups THEN 10
    ELSE 5

\* the cursor a response carries: pageInfo.endCursor for the product
\* lookups, the cursor of the last edge for the tag listings (none when the
\* page has no edge)
CursorOf(l, page) ==
    IF l.fn \in TagListings
    THEN (IF page.edges = <<>> THEN None ELSE Some(page.edges[Len(page.edges)]))
    ELSE Some(page.endCursor)

\* at most one request is without its response, the first request starts
\* at the beginning, and a request that follows a response carries the
\* cursor that response came with
RequestsInSequence ==
    /\ Len(req.requests) - Len(req.served) = (IF req.awaiting THEN 1 ELSE 0)
    /\ req.requests # <<>> => req.requests[1] = None
    /\ \A i \in 2..Len(req.requests) :
           IsSome(CursorOf(req, req.served[i - 1]))
               => req.requests[i] = CursorOf(req, req.served[i - 1])

----------------------------------------------------------------------------
(* The answer to the collections query, read from a catalog under edit     *)

MaxNodes == 2
MaxReads == 2

\* a product node as the query read it at moment k: its variant carries the
\* price the product had at that moment
ProductRead(p, k) ==
    [id       |-> p,
     variants |-> <<[id |-> <<p, 1>>, price |-> ToStr(PriceStep * k) \o <<".", "0", "0">>]>>]

\* the products(first: 50) connection of one collection: no product twice
ProductReads ==
    {<<>>}
    \cup {<<ProductRead(p, k)>> : p \in ProductIds, k \in 1..MaxReads}
    \cup {<<ProductRead(p[1], k[1]), ProductRead(p[2], k[2])>> :
            p \in {q \in ProductIds \X ProductIds : q[1] # q[2]},
            k \in (1..MaxReads) \X (1..MaxReads)}

\* nodes(ids: $ids): one entry per id asked for, null for an id that is gone
NodeReads(c) == {None} \cup {Some([id |-> c, products |-> ps]) : ps \in ProductReads}

CollectionAnswers ==
    UNION {{nodes \in [1..n -> UNION {NodeReads(c) : c \in 1..n}] :
               \A c \in 1..n : nodes[c] \in NodeReads(c)} : n \in 1..MaxNodes}

\* data.data.nodes.filter(...).forEach(... productsMap.set(product.id, product))
\* and Array.from(productsMap.values())
productsMap(nodes) == MapSetAll(<<>>, FlattenCollections(PresentNodes(nodes)))

CollectionsInit ==
    /\ req \in {[nodes |-> nodes] : nodes \in CollectionAnswers}
    /\ resp = [kind |-> "none", products |-> <<>>]
    /\ calc = "none"
    /\ catalog = "none"
    /\ rules = <<>>
    /\ component = "none"
    /\ lastOp = "init"

\* the body of getProductsByCollectionIdsWithPricing after response.json()
ResolveCollections ==
    /\ resp.kind = "none"
    /\ resp' = [kind |-> "returned", products |-> productsMap(req.nodes)]
    /\ lastOp' = "getProductsByCollectionIdsWithPricing"
    /\ UNCHANGED <<calc, catalog, rules, component, req>>

CollectionsNext == ResolveCollections

SpecCollections == CollectionsInit /\ [][CollectionsNext]_vars

----------------------------------------------------------------------------
(* Claims about the collections resolver (under SpecCollections)           *)

RECURSIVE FirstOccurrences(_, _)
FirstOccurrences(seen, items) ==
    IF items = <<>> THEN <<>>
    ELSE IF Head(items).id \in seen THEN FirstOccurrences(seen, Tail(items))
    ELSE <<Head(items)>> \o FirstOccurrences(seen \cup {Head(items).id}, Tail(items))

IdsOf(items) == [i \in 1..Len(items) |-> items[i].id]

\* C24: a product that occurs in several selected collections stands at the
\* position of its first occurrence in collection order, and the record
\* returned for it is the one read from the first collection that contains it.
C24_FirstOccurrenceKept ==
    resp.kind = "returned"
    => resp.products = FirstOccurrences({}, FlattenCollections(PresentNodes(req.nodes)))

----------------------------------------------------------------------------
(* Two clients saving the same rule: each runs the update branch once      *)

Clients == {1, 2}

\* the rule both forms were opened on
RacedRule == 1

FindUniqueOf(c) == <<"findUnique", c>>
UpdateOf(c) == <<"update", c>>

\* the database calls served so far, in the order the database served them
Served(event) == \E i \in 1..Len(lastOp) : lastOp[i] = event
PositionOf(event) == CHOOSE i \in 1..Len(lastOp) : lastOp[i] = event

RaceInit ==
    /\ calc = CalcIdle
    /\ catalog = PreviewCatalog
    /\ rules = SeedStore
    /\ resp = [c \in Clients |-> NoRuleResponse]
    /\ component = ComponentInit
    /\ req = [c \in Clients |-> NoRuleRequest]
    /\ lastOp = <<>>

\* client c's POST /app/pricing_rule/$id up to findUnique
RaceUpdate(c) ==
    \E sub \in Submissions :
        LET response == action_response(Some(RacedRule), sub[1], sub[2])
        IN  /\ req[c].handler = "none"
            /\ resp' = [resp EXCEPT ![c] = IF response.success THEN Pending ELSE response]
            /\ req' = [req EXCEPT ![c] =
                          RuleRequest("update", Some(RacedRule), sub[1], sub[2],
                                      IF response.success THEN Some(rules[RacedRule]) ELSE None)]
            /\ lastOp' = IF response.success THEN Append(lastOp, FindUniqueOf(c)) ELSE lastOp
            /\ UNCHANGED <<calc, catalog, rules, component>>

\* the rest of client c's request: prisma.pricingRule.update and the answer
RaceWrite(c) ==
    /\ resp[c].kind = "pending"
    /\ rules' = action_update(RacedRule, req[c].form, req[c].read[1])
    /\ resp' = [resp EXCEPT ![c] = RuleJson(200, TRUE, {})]
    /\ lastOp' = Append(lastOp, UpdateOf(c))
    /\ UNCHANGED <<calc, catalog, component, req>>

RaceNext ==
    \/ \E c \in Clients : RaceUpdate(c)
    \/ \E c \in Clients : RaceWrite(c)

SpecRace == RaceInit /\ [][RaceNext]_vars

----------------------------------------------------------------------------
(* Claims about concurrent saves of one rule (under SpecRace)              *)

\* both clients read the rule before either wrote it, and both have written
Interleaved ==
    /\ \A c \in Clients : Served(FindUniqueOf(c)) /\ Served(UpdateOf(c))
    /\ \A c, d \in Clients : PositionOf(FindUniqueOf(c)) < PositionOf(UpdateOf(d))

LastWriter == lastOp[Len(lastOp)][2]

\* C25: when two updates of the same rule interleave (each reads the rule,
\* then writes), neither is rejected for a conflict, and the stored rule is
\* the rule as it was before both with the columns of the last write put in:
\* nothing of the earlier write survives.
C25_LastWriteWins ==
    Interleaved =>
        /\ \A c \in Clients : resp[c] = RuleJson(200, TRUE, {})
        /\ rules[RacedRule] =
               Updated(SeedRule, UpdateData(req[LastWriter].form, SeedRule))

C25_Witness ==
    /\ Interleaved
    /\ lastOp = <<FindUniqueOf(1), FindUniqueOf(2), UpdateOf(2), UpdateOf(1)>>
    /\ UpdateData(req[1].form, SeedRule) # UpdateData(req[2].form, SeedRule)
    /\ rules[RacedRule].name = Trim(req[1].form.name)
    /\ rules[RacedRule].name # Trim(req[2].form.name)

----------------------------------------------------------------------------
(* One row of the priced report, for prices a cent apart                   *)

\* prices and amounts as the shop and the form write them
PlainNumbers == {ToStr(PriceStep * k) \o f : k \in 0..MaxK, f \in Fractions}

RowInput(price, priceType, amount) ==
    [price |-> price, priceType |-> priceType, amount |-> amount]

RowsInit ==
    /\ req \in {RowInput(price, t, amount) :
                  price \in PlainNumbers, t \in PriceTypes, amount \in PlainNumbers \cup {<<>>}}
    /\ component = None
    /\ calc = CalcIdle
    /\ catalog = PreviewCatalog
    /\ rules = <<>>
    /\ resp = NoResponse
    /\ lastOp = "init"

\* the body of product.variants.forEach in prepareTableData, for one variant
RenderRow ==
    /\ component = None
    /\ component' = Some(TableRow("p1", "Default Title", req.price, req.priceType, req.amount))
    /\ lastOp' = "prepareTableData"
    /\ UNCHANGED <<calc, catalog, rules, resp, req>>

RowsNext == RenderRow

SpecRows == RowsInit /\ [][RowsNext]_vars

----------------------------------------------------------------------------
(* Claims about the difference column (under SpecRows)                     *)

RowOriginal == OrZero(parseFloat(req.price))
RowDelta == calculateNewPrice(req.price, req.priceType, req.amount) - RowOriginal

\* one cent, in the units of the prices
Cent == Scale \div 100

\* C26: a variant row shows 'no change' exactly when the magnitude of
\* delta = newPrice - originalPrice is below 0.01; for every delta of
\* magnitude 0.01 or more the row shows the signed delta and
\* deltaPercent = delta / original * 100 ("0" when original is 0).
C26_NoChangeBelowOneCent ==
    IsSome(component) =>
        LET shown == component[1].difference
        IN  /\ ~shown.shown <=> Abs(RowDelta) < Cent
            /\ Abs(RowDelta) >= Cent =>
                  /\ shown.amount = formatCurrency(RowDelta)
                  /\ shown.plus <=> RowDelta > 0
                  /\ shown.percent = IF RowOriginal > 0
                                     THEN RoundDiv(RowDelta * 1000, RowOriginal) ELSE 0

----------------------------------------------------------------------------
(* Claims about the two forms of the endpoint (under SpecResolve)          *)

\* a query string that carries its selector as the ids themselves: no blank
\* segment for the loader to drop
PlainParam(param) == IsSome(param) => \A i \in 1..Len(param[1]) : ~Blank(param[1][i])

PlainQuery(q) == PlainParam(q.productIds) /\ PlainParam(q.collectionIds) /\ PlainParam(q.tags)

\* the POST body with the applyTo and the selector of a query string
BodyOf(q) == Body(q.applyTo, q.productIds, None, q.collectionIds, q.tags)

\* what the POST form of the same route answers to the selector of the GET
\* request just served, in the same catalog and with the same environment
PostAnswer ==
    IF req.handler = "utils_loader" THEN utils_action(Some(BodyOf(req.input)), req.env)
    ELSE services_action(Some(BodyOf(req.input)), req.env)

\* C27: for the same applyTo, the same selector and the same catalog state the
\* GET and the POST form of the endpoint return the same success flag, the
\* same product list and the same count, also when the catalog holds no
\* products.
C27_GetEqualsPost ==
    (Answered /\ req.handler \in {"utils_loader", "services_loader"}
        /\ NoFault /\ PlainQuery(req.input))
    => /\ resp.success = PostAnswer.success
       /\ resp.products = PostAnswer.products
       /\ resp.count = PostAnswer.count

----------------------------------------------------------------------------
(* The members service: an Express server over the users file              *)

\* the highest id the file gets to, the longest ids array of a bulk request
MaxId == 4
MaxIds == 2

UserFields == {"name", "email", "age", "gender", "team"}

\* a request body; a field that is absent or empty is ""
UserBody(name, email, team) ==
    [name |-> name, email |-> email, age |-> "30", gender |-> "female", team |-> team]

User(id, body) ==
    [id |-> id, name |-> body.name, email |-> body.email, age |-> body.age,
     gender |-> body.gender, team |-> body.team]

\* !name || !email || !age || !gender || !team
MissingField(body) == \E f \in UserFields : body[f] = ""

\* readUsers: the parsed file, [] when reading or parsing fails
readUsers(file, env) == IF env.read = "ok" THEN file ELSE <<>>

UserIds(users) == {users[i].id : i \in 1..Len(users)}

\* users.length > 0 ? Math.max(...users.map(u => u.id)) : 0
maxId(users) ==
    IF users = <<>> THEN 0 ELSE CHOOSE m \in UserIds(users) : \A n \in UserIds(users) : n <= m

\* what a handler has decided once it has the users: the status it answers
\* with, the list it hands to writeUsers (if it writes), the user of its answer
Decision(status, write, user) == [status |-> status, write |-> write, user |-> user]

\* POST /api/users
post_users(body, users) ==
    IF MissingField(body) THEN Decision(400, None, None)
    ELSE IF \E i \in 1..Len(users) : users[i].email = body.email
    THEN Decision(400, None, None)
    ELSE LET newUser == User(maxId(users) + 1, body)
         IN  Decision(201, Some(Append(users, newUser)), Some(newUser))

\* PUT /api/users/:id
put_users(id, body, users) ==
    LET found == {i \in 1..Len(users) : users[i].id = id}
    IN  IF found = {} THEN Decision(404, None, None)
        ELSE IF MissingField(body) THEN Decision(400, None, None)
        ELSE IF \E i \in 1..Len(users) : users[i].email = body.email /\ users[i].id # id
        THEN Decision(400, None, None)
        ELSE LET userIndex == CHOOSE i \in found : \A j \in found : i <= j
                 updated   == User(users[userIndex].id, body)
             IN  Decision(200, Some([users EXCEPT ![userIndex] = updated]), Some(updated))

\* DELETE /api/users; ids is None when the body has no ids array
delete_users(ids, users) ==
    IF ~IsSome(ids) THEN Decision(400, None, None)
    ELSE Decision(200, Some(SelectSeq(users, LAMBDA u : u.id \notin Range(ids[1]))), None)

\* a mutant: every copy gets the same new id
duplicate_users_OneId(ids, users) ==
    IF ~IsSome(ids) THEN Decision(400, None, None)
    ELSE LET usersToDuplicate == SelectSeq(users, LAMBDA u : u.id \in Range(ids[1]))
             duplicatedUsers  ==
                 [i \in 1..Len(usersToDuplicate) |->
                     [usersToDuplicate[i] EXCEPT !.id = maxId(users) + 1]]
         IN  IF usersToDuplicate = <<>> THEN Decision(404, None, None)
             ELSE Decision(200, Some(users \o duplicatedUsers), None)

\* POST /api/users/duplicate: the copies keep every field but the id, which is
\* maxId + index + 1 for index = 0, 1, ...
duplicate_users(ids, users) ==
    IF ~IsSome(ids) THEN Decision(400, None, None)
    ELSE LET usersToDuplicate == SelectSeq(users, LAMBDA u : u.id \in Range(ids[1]))
             duplicatedUsers  ==
                 [i \in 1..Len(usersToDuplicate) |->
                     [usersToDuplicate[i] EXCEPT !.id = maxId(users) + i]]
         IN  IF usersToDuplicate = <<>> THEN Decision(404, None, None)
             ELSE Decision(200, Some(users \o duplicatedUsers), None)

UsersEnv(read, write) == [read |-> read, write |-> write]
UsersEnvOk == UsersEnv("ok", "ok")
UsersFaults == {UsersEnv("error", "ok"), UsersEnv("ok", "error")}

UsersRequest(route, id, body, ids, env) ==
    [route |-> route, id |-> id, body |-> body, ids |-> ids, env |-> env]

NoUsersRequest == UsersRequest("none", 0, UserBody("", "", ""), None, UsersEnvOk)

UsersJson(status, user) == [kind |-> "json", status |-> status, user |-> user]
NoUsersResponse == [kind |-> "none", status |-> 0, user |-> None]

\* the handler of a request, up to its call of writeUsers
Decide(request, users) ==
    CASE request.route = "post_users"   -> post_users(request.body, users)
      [] request.route = "put_users"    -> put_users(request.id, request.body, users)
      [] request.route = "delete_users" -> delete_users(request.ids, users)
      [] OTHER                          -> duplicate_users(request.ids, users)

\* writeUsers and the answer: a write that fails leaves the file and ends in
\* the catch (500)
writeUsers(file, decision, env) ==
    IF IsSome(decision.write) /\ env.write = "ok" THEN decision.write[1] ELSE file

Answer(decision, env) ==
    IF IsSome(decision.write) /\ env.write # "ok" THEN UsersJson(500, None)
    ELSE UsersJson(decision.status, decision.user)

UserNames == {"Ann", "Bob"}
UserEmails == {"a@x", "b@x"}

GoodBody == UserBody("Ann", "a@x", "dev")

UserBodies ==
    {UserBody(n, e, "dev") : n \in UserNames, e \in UserEmails}
    \cup {UserBody("", "a@x", "dev"), UserBody("Ann", "", "dev"), UserBody("Ann", "a@x", "")}

IdArrays == {None} \cup {Some(q) : q \in SeqsUpTo(1..MaxId, MaxIds)}

\* every input where nothing goes wrong, one input with each fault
PostRequests ==
    {UsersRequest("post_users", 0, b, None, UsersEnvOk) : b \in UserBodies}
    \cup {UsersRequest("post_users", 0, UserBody("Bob", "b@x", "dev"), None, env) :
            env \in UsersFaults}

PutRequests ==
    {UsersRequest("put_users", id, b, None, UsersEnvOk) : id \in 1..MaxId, b \in UserBodies}
    \cup {UsersRequest("put_users", 1, GoodBody, None, env) : env \in UsersFaults}

DeleteUsersRequests ==
    {UsersRequest("delete_users", 0, GoodBody, ids, UsersEnvOk) : ids \in IdArrays}
    \cup {UsersRequest("delete_users", 0, GoodBody, Some(<<1>>), env) : env \in UsersFaults}

DuplicateRequests ==
    {UsersRequest("duplicate_users", 0, GoodBody, ids, UsersEnvOk) : ids \in IdArrays}
    \cup {UsersRequest("duplicate_users", 0, GoodBody, Some(<<1>>), env) : env \in UsersFaults}

\* the users file as shipped: ids and emails pairwise distinct
SeedUsers == <<User(1, UserBody("Ann", "a@x", "dev")), User(2, UserBody("Bob", "b@x", "dev"))>>

UsersInit ==
    /\ rules \in {<<>>, SeedUsers}
    /\ req = NoUsersRequest
    /\ resp = NoUsersResponse
    /\ calc = "none"
    /\ catalog = "none"
    /\ component = "none"
    /\ lastOp = "init"

\* a request served from its first line to its answer, no other request in
\* between; rules is the content of the users file
ServeUsers(request) ==
    LET decision == Decide(request, readUsers(rules, request.env))
    IN  /\ resp.kind = "none"
        /\ IsSome(decision.write) => maxId(decision.write[1]) <= MaxId
        /\ rules' = writeUsers(rules, decision, request.env)
        /\ resp' = Answer(decision, request.env)
        /\ req' = request
        /\ lastOp' = request.route
        /\ UNCHANGED <<calc, catalog, component>>

CreateUser == \E request \in PostRequests : ServeUsers(request)
UpdateUser == \E request \in PutRequests : ServeUsers(request)
DeleteUsers == \E request \in DeleteUsersRequests : ServeUsers(request)
DuplicateUsers == \E request \in DuplicateRequests : ServeUsers(request)

\* the client has read the answer
UsersDeliver ==
    /\ resp.kind = "json"
    /\ resp' = NoUsersResponse
    /\ req' = NoUsersRequest
    /\ lastOp' = "deliver"
    /\ UNCHANGED <<calc, catalog, rules, component>>

UsersNext == CreateUser \/ UpdateUser \/ DeleteUsers \/ DuplicateUsers \/ UsersDeliver

SpecUsers == UsersInit /\ [][UsersNext]_vars

----------------------------------------------------------------------------
(* Claims about the members service, one request at a time (under SpecUsers) *)

\* C28: after any sequence of create, update, bulk delete and bulk duplicate
\* requests processed one at a time, no two users in the users file share an id.
C28_IdsDistinct ==
    \A i, j \in 1..Len(rules) : rules[i].id = rules[j].id => i = j

C28_Witness ==
    /\ lastOp = "duplicate_users" /\ resp.status = 200
    /\ Len(req.ids[1]) = 2 /\ req.ids[1][1] # req.ids[1][2]
    /\ Len(rules) = 4
    /\ UserIds(rules) = 1..4

\* C29: starting from a users file with pairwise distinct emails, no two users
\* share an email after any sequence of create, update, bulk delete and bulk
\* duplicate requests processed one at a time.
C29_EmailsDistinct ==
    \A i, j \in 1..Len(rules) : rules[i].email = rules[j].email => i = j

----------------------------------------------------------------------------
(* The members service with two requests in flight                         *)

\* a request in flight: where its handler stands, and what it decided from the
\* users it read
InFlight(request, at, decision) == [request |-> request, at |-> at, decision |-> decision]

NotSent == InFlight(NoUsersRequest, "start", Decision(0, None, None))

\* two clients send one request each; neither meets a failing read or write
RacingRequests ==
    {r \in PostRequests \cup PutRequests \cup DeleteUsersRequests \cup DuplicateRequests :
        r.env = UsersEnvOk}

UsersRaceInit ==
    /\ rules \in {<<>>, SeedUsers}
    /\ req = [c \in Clients |-> NotSent]
    /\ resp = [c \in Clients |-> NoUsersResponse]
    /\ calc = "none"
    /\ catalog = "none"
    /\ component = "none"
    /\ lastOp = <<>>

\* client c's handler runs up to the end of await readUsers() and on to its
\* decision: it answers at once, or goes on to await writeUsers(...)
ReadUsers(c) ==
    \E request \in RacingRequests :
        LET decision == Decide(request, readUsers(rules, request.env))
        IN  /\ req[c].at = "start"
            /\ IsSome(decision.write) => maxId(decision.write[1]) <= MaxId
            /\ req' = [req EXCEPT ![c] =
                          InFlight(request, IF IsSome(decision.write) THEN "writeUsers" ELSE "done",
                                   decision)]
            /\ resp' = [resp EXCEPT ![c] =
                          IF IsSome(decision.write) THEN @ ELSE Answer(decision, request.env)]
            /\ lastOp' = Append(lastOp, <<"readUsers", c>>)
            /\ UNCHANGED <<calc, catalog, rules, component>>

\* fs.writeFile of client c's list completes and the handler answers
WriteUsers(c) ==
    /\ req[c].at = "writeUsers"
    /\ rules' = writeUsers(rules, req[c].decision, req[c].request.env)
    /\ resp' = [resp EXCEPT ![c] = Answer(req[c].decision, req[c].request.env)]
    /\ req' = [req EXCEPT ![c].at = "done"]
    /\ lastOp' = Append(lastOp, <<"writeUsers", c>>)
    /\ UNCHANGED <<calc, catalog, component>>

UsersRaceNext ==
    \/ \E c \in Clients : ReadUsers(c)
    \/ \E c \in Clients : WriteUsers(c)

SpecUsersRace == UsersRaceInit /\ [][UsersRaceNext]_vars

----------------------------------------------------------------------------
(* Claims about concurrent requests to the members service (under SpecUsersRace) *)

AllFinished == \A c \in Clients : req[c].at = "done"

Created(c) == req[c].request.route = "post_users" /\ resp[c].status = 201

\* another request was a delete that named the id, or an update of the id
DeleteNamed(id) ==
    \E d \in Clients :
        /\ req[d].request.route = "delete_users" /\ IsSome(req[d].request.ids)
        /\ id \in Range(req[d].request.ids[1])

UpdateNamed(id) ==
    \E d \in Clients : req[d].request.route = "put_users" /\ req[d].request.id = id

\* C30: when requests are processed concurrently, their reads and writes of
\* the users file interleaving, every create that answered 201 has its user in
\* the file once all requests have finished, unless a delete request named
\* that user's id.
C30_CreatedUserKept ==
    AllFinished =>
        \A c \in Clients :
            (Created(c) /\ ~DeleteNamed(resp[c].user[1].id)) =>
                \E i \in 1..Len(rules) :
                    /\ rules[i].id = resp[c].user[1].id
                    /\ UpdateNamed(rules[i].id) \/ rules[i] = resp[c].user[1]

====
